---- MODULE Spec2Model ----
(***************************************************************************)
(* Model of the template-driven extraction engine of the quote-management  *)
(* application: FileParser (server/src/services/file-parser.ts).           *)
(*                                                                         *)
(* JavaScript strings are sequences of one-character strings, so that      *)
(* Number(), String(), template literals and charCodeAt() are computed and *)
(* not assumed.  Array indexes keep the source's zero base; TLA+ sequences *)
(* are one-based, so rows[i] of the source is rows[i + 1] here.            *)
(***************************************************************************)
EXTENDS Integers, Sequences, FiniteSets, TLC

VARIABLES
    file,        \* the uploaded file: its kind and its content
    lenientDates,\* whether the JS engine's Date accepts non-ISO digit strings
    fileData,    \* ParsedFileData returned by parseFile
    template,    \* TemplateMappingData handed to applyTemplate
    pc,          \* position of the parse / applyTemplate call
    i,           \* loop index of applyTemplate (zero-based source row)
    k,           \* loop position of applyPdfTemplate (one-based column)
    mappedRows,  \* local mappedRows of applyTemplate
    mappedRow,   \* local mappedRow of applyPdfTemplate
    errors,      \* local errors of applyTemplate / applyPdfTemplate
    result,      \* the MappingResult returned, or the Error thrown
    raw,         \* convertDataType unit: the value argument
    dataType,    \* convertDataType unit: the dataType argument
    coerced,     \* convertDataType unit: the outcome
    col,         \* excelColToIndex unit: the column letters
    ord,         \* excelColToIndex unit: position of col in Excel column order
    colIndex,    \* excelColToIndex unit: the index returned
    calls,       \* the calls in progress: arguments and locals of each
    quotations,  \* the stored quotations, by id
    response,    \* the response of the export request
    uploadedFiles,  \* the stored uploaded files, by id
    currentFileId,  \* the id the next uploaded file gets
    processing,  \* the apply-template requests between their two status updates
    memStorage,  \* MemStorage: the map and the id counter of each entity kind
    sqliteStorage,  \* the quotations table of SQLiteStorage and its AUTOINCREMENT sequence
    lastCall,    \* the last call or request made and what it returned
    history      \* what has been done so far: ids issued, updates applied

vars == <<file, lenientDates, fileData, template, pc, i, k, mappedRows,
          mappedRow, errors, result, raw, dataType, coerced, col, ord, colIndex,
          calls, quotations, response, uploadedFiles, currentFileId, processing,
          memStorage, sqliteStorage, lastCall, history>>

(***************************************************************************)
(* Bounds of the model.                                                    *)
(***************************************************************************)
MaxRows == 2      \* data rows of a spreadsheet / delimited file
MaxFields == 2    \* columns of a template
MaxSkip == 1      \* largest skipRows of a template
MaxRawLen == 3    \* length of the generated raw strings handed to convertDataType
MaxColLen == 2    \* length of the column letters handed to excelColToIndex
MaxQuotations == 2  \* stored quotations
MaxFiles == 2     \* uploaded files
MaxCalls == 3     \* calls made on a storage object
MaxTemplates == 2 \* templates inserted through the template routes

(***************************************************************************)
(* Characters.                                                             *)
(***************************************************************************)
\* Printable ASCII in code order; Ascii[n] has character code n + 31
\* (code 96, the grave accent, cannot be written in a TLA+ string).
Ascii ==
    <<" ", "!", "\"", "#", "$", "%", "&", "'", "(", ")", "*", "+", ",", "-", ".", "/",
      "0", "1", "2", "3", "4", "5", "6", "7", "8", "9", ":", ";", "<", "=", ">", "?",
      "@", "A", "B", "C", "D", "E", "F", "G", "H", "I", "J", "K", "L", "M", "N", "O",
      "P", "Q", "R", "S", "T", "U", "V", "W", "X", "Y", "Z", "[", "\\", "]", "^", "_",
      "<grave>", "a", "b", "c", "d", "e", "f", "g", "h", "i", "j", "k", "l", "m", "n", "o",
      "p", "q", "r", "s", "t", "u", "v", "w", "x", "y", "z", "{", "|", "}", "~">>

\* String.prototype.charCodeAt for one character.
CharCode(c) == 31 + (CHOOSE n \in 1..Len(Ascii) : Ascii[n] = c)

UpperLetters == {Ascii[n] : n \in 34..59}
LowerLetters == {Ascii[n] : n \in 66..91}
Digits == {Ascii[n] : n \in 17..26}
DigitVal(c) == CharCode(c) - 48
WhiteSpace == {" "}

\* Case folding of the regular-expression flag 'i'.
Fold(c) == IF c \in UpperLetters THEN Ascii[CharCode(c) - 31 + 32] ELSE c

(***************************************************************************)
(* JavaScript values.                                                      *)
(***************************************************************************)
Undefined == [t |-> "undefined"]
Null == [t |-> "null"]
Str(s) == [t |-> "string", s |-> s]
\* A number: NaN, +-Infinity, or the finite value (-1)^neg * mant * 10^exp,
\* normalised so that mant has no trailing zero (and zero is mant = 0, exp = 0).
NaN == [t |-> "number", kind |-> "nan", neg |-> FALSE, mant |-> 0, exp |-> 0]
Inf(neg) == [t |-> "number", kind |-> "inf", neg |-> neg, mant |-> 0, exp |-> 0]
Fin(neg, mant, exp) ==
    [t |-> "number", kind |-> "fin", neg |-> neg, mant |-> mant, exp |-> exp]

\* ToBoolean, as used by `value || null` and `if (!pattern)`.
Truthy(v) ==
    CASE v.t = "undefined" -> FALSE
      [] v.t = "null" -> FALSE
      [] v.t = "string" -> v.s # <<>>
      [] v.t = "number" -> ~(v.kind = "nan" \/ (v.kind = "fin" /\ v.mant = 0))
      [] v.t = "boolean" -> v.b
      [] OTHER -> TRUE

(***************************************************************************)
(* Strings.                                                                *)
(***************************************************************************)
AllIn(s, S) == \A n \in 1..Len(s) : s[n] \in S

\* Position of the first character of s that is in S; 0 when there is none.
IndexOf(s, S) ==
    IF \E n \in 1..Len(s) : s[n] \in S
    THEN CHOOSE n \in 1..Len(s) : s[n] \in S /\ \A m \in 1..(n - 1) : s[m] \notin S
    ELSE 0

From(s, n) == SubSeq(s, n, Len(s))

\* s contains sub as a contiguous run.
Contains(s, sub) ==
    \E n \in 0..(Len(s) - Len(sub)) : SubSeq(s, n + 1, n + Len(sub)) = sub

\* Leading and trailing white space removed (StringToNumber strips it).
Trim(s) ==
    IF AllIn(s, WhiteSpace) THEN <<>>
    ELSE LET a == CHOOSE n \in 1..Len(s) :
                     s[n] \notin WhiteSpace /\ \A m \in 1..(n - 1) : s[m] \in WhiteSpace
             b == CHOOSE n \in 1..Len(s) :
                     s[n] \notin WhiteSpace /\ \A m \in (n + 1)..Len(s) : s[m] \in WhiteSpace
         IN  SubSeq(s, a, b)

\* String(value) and `${value}` for the values a cell or a capture group holds.
ToStr(v) ==
    CASE v.t = "string" -> v.s
      [] v.t = "undefined" -> <<"u", "n", "d", "e", "f", "i", "n", "e", "d">>
      [] v.t = "null" -> <<"n", "u", "l", "l">>

(***************************************************************************)
(* Number(value): ECMAScript StringToNumber.                               *)
(***************************************************************************)
RECURSIVE DigitsValue(_, _)
\* The value of the digit string s in the given base (letters are hex digits).
DigitsValue(s, base) ==
    IF s = <<>> THEN 0
    ELSE DigitsValue(SubSeq(s, 1, Len(s) - 1), base) * base
           + (IF s[Len(s)] \in Digits THEN DigitVal(s[Len(s)])
              ELSE CharCode(Fold(s[Len(s)])) - 87)

RECURSIVE NumDigits(_)
NumDigits(m) == IF m < 10 THEN 1 ELSE 1 + NumDigits(m \div 10)

RECURSIVE Pow10(_)
Pow10(n) == IF n = 0 THEN 1 ELSE 10 * Pow10(n - 1)

RECURSIVE StripZeros(_, _)
\* mant * 10^exp with the trailing zeros of mant moved into exp.
StripZeros(mant, exp) ==
    IF mant % 10 = 0 THEN StripZeros(mant \div 10, exp + 1) ELSE <<mant, exp>>

\* The double nearest to (-1)^neg * mant * 10^exp, for mant of at most 9 digits:
\* values from about 1.797693134862315808e308 up round to Infinity and values
\* below about 2.4703282292062328e-324 round to zero.
ToDouble(neg, mant, exp) ==
    IF mant = 0 THEN Fin(neg, 0, 0)
    ELSE LET n == StripZeros(mant, exp)
             nd == NumDigits(n[1])
             order == nd + n[2]
             lead == n[1] * Pow10(9 - nd)
         IN  IF order > 309 \/ (order = 309 /\ lead >= 179769314) THEN Inf(neg)
             ELSE IF order < -323 \/ (order = -323 /\ lead < 247032823)
                  THEN Fin(neg, 0, 0)
                  ELSE Fin(neg, n[1], n[2])

InfinityText == <<"I", "n", "f", "i", "n", "i", "t", "y">>
HexDigits == Digits \cup {"a", "b", "c", "d", "e", "f", "A", "B", "C", "D", "E", "F"}

\* StrUnsignedDecimalLiteral: digits [. digits] [e [sign] digits], or . digits ...
UnsignedDecimal(neg, u) ==
    LET e == IndexOf(u, {"e", "E"})
        m == IF e = 0 THEN u ELSE SubSeq(u, 1, e - 1)
        x == IF e = 0 THEN <<>> ELSE From(u, e + 1)
        xneg == x # <<>> /\ x[1] = "-"
        xs == IF x # <<>> /\ x[1] \in {"+", "-"} THEN Tail(x) ELSE x
        d == IndexOf(m, {"."})
        ip == IF d = 0 THEN m ELSE SubSeq(m, 1, d - 1)
        fp == IF d = 0 THEN <<>> ELSE From(m, d + 1)
        xv == DigitsValue(xs, 10)
    IN  IF /\ AllIn(ip, Digits) /\ AllIn(fp, Digits) /\ Len(ip) + Len(fp) > 0
           /\ (e = 0 \/ (xs # <<>> /\ AllIn(xs, Digits)))
        THEN ToDouble(neg, DigitsValue(ip \o fp, 10),
                      (IF xneg THEN 0 - xv ELSE xv) - Len(fp))
        ELSE NaN

\* Number(s) for a string s.
StringToNumber(s) ==
    LET t == Trim(s)
        signed == t # <<>> /\ t[1] \in {"+", "-"}
        neg == t # <<>> /\ t[1] = "-"
        u == IF signed THEN Tail(t) ELSE t
        radix == IF Len(t) > 2 /\ t[1] = "0"
                 THEN CASE t[2] \in {"x", "X"} -> 16
                        [] t[2] \in {"o", "O"} -> 8
                        [] t[2] \in {"b", "B"} -> 2
                        [] OTHER -> 0
                 ELSE 0
        allowed == CASE radix = 16 -> HexDigits
                     [] radix = 8 -> {"0", "1", "2", "3", "4", "5", "6", "7"}
                     [] OTHER -> {"0", "1"}
    IN  IF t = <<>> THEN Fin(FALSE, 0, 0)
        ELSE IF radix # 0
             THEN IF AllIn(From(t, 3), allowed)
                  THEN ToDouble(FALSE, DigitsValue(From(t, 3), radix), 0)
                  ELSE NaN
             ELSE IF u = InfinityText THEN Inf(neg)
                  ELSE UnsignedDecimal(neg, u)

\* Number(value).
ToNumber(v) ==
    CASE v.t = "string" -> StringToNumber(v.s)
      [] v.t = "number" -> v
      [] v.t = "null" -> Fin(FALSE, 0, 0)
      [] v.t = "boolean" -> Fin(FALSE, IF v.b THEN 1 ELSE 0, 0)
      [] OTHER -> NaN

\* isNaN(num) for a number.
IsNaN(num) == num.kind = "nan"

(***************************************************************************)
(* new Date(value): Date.parse of a string.  The date-only ISO form is     *)
(* defined by ECMAScript; every other string that holds a digit is left to *)
(* the engine's fallback parser, which lenientDates stands for.  A string  *)
(* without any digit is no date in any engine.                             *)
(***************************************************************************)
IsoShaped(s) ==
    /\ Len(s) = 10
    /\ s[5] = "-" /\ s[8] = "-"
    /\ \A n \in {1, 2, 3, 4, 6, 7, 9, 10} : s[n] \in Digits

DaysInMonth(y, m) ==
    CASE m \in {4, 6, 9, 11} -> 30
      [] m = 2 -> IF (y % 4 = 0 /\ y % 100 # 0) \/ y % 400 = 0 THEN 29 ELSE 28
      [] OTHER -> 31

\* isNaN(new Date(s).getTime()) is false.
DateIsValid(s) ==
    IF IsoShaped(s)
    THEN LET y == DigitsValue(SubSeq(s, 1, 4), 10)
             m == DigitsValue(SubSeq(s, 6, 7), 10)
             d == DigitsValue(SubSeq(s, 9, 10), 10)
         IN  /\ m \in 1..12 /\ d \in 1..31
             /\ (d <= DaysInMonth(y, m) \/ lenientDates)
    ELSE (\E n \in 1..Len(s) : s[n] \in Digits) /\ lenientDates

\* date.toISOString(): the UTC midnight of an ISO date; for a date only the
\* engine's fallback parser understands, the text is the engine's and is kept
\* opaque.
ToISOString(s) ==
    IF IsoShaped(s) /\ DigitsValue(SubSeq(s, 9, 10), 10)
                         <= DaysInMonth(DigitsValue(SubSeq(s, 1, 4), 10),
                                        DigitsValue(SubSeq(s, 6, 7), 10))
    THEN s \o <<"T", "0", "0", ":", "0", "0", ":", "0", "0", ".", "0", "0", "0", "Z">>
    ELSE <<"<engine ISO of ">> \o s \o <<">">>

(***************************************************************************)
(* Message texts.  The source's messages are Korean; TLA+ strings are      *)
(* ASCII, so each literal fragment is one token holding its romanisation.  *)
(* Interpolated values stay character sequences.                           *)
(***************************************************************************)
Quote == "'"
TxtNotValid == "eun(neun) yuhyohan "          \* 은(는) 유효한
WordNumber == "sutja"                         \* 숫자 (number)
WordDate == "naljja"                          \* 날짜 (date)
TxtIsNot == "ga anipnida."                    \* 가 아닙니다.
TxtRequiredField == "pilsu pildeu "           \* 필수 필드
TxtField == "pildeu "                         \* 필드
TxtHasNoValue == "ui gapsi eopseupnida."      \* 의 값이 없습니다.
TxtConvertError == "ui deiteo taip byeonhwan oryu: "  \* 의 데이터 타입 변환 오류:
TxtNoPattern == "ui paeteoni jeonguidoeji anatseupnida."  \* 의 패턴이 정의되지 않았습니다.
TxtNotFound == "ui gapseul chajeul su eopseupnida."  \* 의 값을 찾을 수 없습니다.
TxtParseError == "pail pasing oryu: "         \* 파일 파싱 오류:
TxtFileNotFound == "paireul chajeul su eopseupnida: "  \* 파일을 찾을 수 없습니다:
TxtUnsupported == "jiwonhaji anneun pail hyeongsigimnida: "  \* 지원하지 않는 파일 형식입니다:
TxtApplyError == "tempeullit jeogyong oryu: "  \* 템플릿 적용 오류:

(***************************************************************************)
(* FileParser.convertDataType                                              *)
(***************************************************************************)
Return(v) == [ok |-> TRUE, val |-> v]
Throw(message) == [ok |-> FALSE, message |-> message]

\* Mutant of InvalidNumberMessage: the message leaves the value out.
InvalidNumberMessage_NoValue(value) == <<TxtNotValid, WordNumber, TxtIsNot>>

InvalidNumberMessage(value) ==
    <<Quote>> \o ToStr(value) \o <<Quote, TxtNotValid, WordNumber, TxtIsNot>>

InvalidDateMessage(value) ==
    <<Quote>> \o ToStr(value) \o <<Quote, TxtNotValid, WordDate, TxtIsNot>>

\* Mutant of convertDataType: a null or undefined value meant to be a number
\* goes through the number check and fails it.
convertDataType_NullIsNotANumber(value, type) ==
    IF value.t \in {"null", "undefined"}
    THEN IF type = "number" THEN Throw(InvalidNumberMessage(value)) ELSE Return(Null)
    ELSE CASE type = "number" ->
                LET num == ToNumber(value)
                IN  IF IsNaN(num) THEN Throw(InvalidNumberMessage(value))
                    ELSE Return(num)
           [] type = "date" ->
                IF ~DateIsValid(ToStr(value)) THEN Throw(InvalidDateMessage(value))
                ELSE Return(Str(ToISOString(ToStr(value))))
           [] OTHER -> Return(Str(ToStr(value)))

convertDataType(value, type) ==
    IF value.t \in {"null", "undefined"} THEN Return(Null)
    ELSE CASE type = "number" ->
                LET num == ToNumber(value)
                IN  IF IsNaN(num) THEN Throw(InvalidNumberMessage(value))
                    ELSE Return(num)
           [] type = "date" ->
                IF ~DateIsValid(ToStr(value)) THEN Throw(InvalidDateMessage(value))
                ELSE Return(Str(ToISOString(ToStr(value))))
           [] OTHER -> Return(Str(ToStr(value)))

(***************************************************************************)
(* FileParser.excelColToIndex                                              *)
(***************************************************************************)
RECURSIVE ColAccumulate(_, _, _)
\* The loop: result after the characters n..Len(c) of c, starting from result.
ColAccumulate(c, n, res) ==
    IF n > Len(c) THEN res
    ELSE ColAccumulate(c, n + 1, res * 26 + CharCode(c[n]) - 64)

RECURSIVE ColAccumulateZeroBased(_, _, _)
ColAccumulateZeroBased(c, n, res) ==
    IF n > Len(c) THEN res
    ELSE ColAccumulateZeroBased(c, n + 1, res * 26 + CharCode(c[n]) - 65)

\* Mutant of excelColToIndex: plain base 26 with A as the digit 0.
excelColToIndex_ZeroBased(c) == ColAccumulateZeroBased(c, 1, 0)

excelColToIndex(c) == ColAccumulate(c, 1, 0) - 1

(***************************************************************************)
(* pdfContent.match(new RegExp(pattern, 'i')) for the patterns the model   *)
(* uses: a literal prefix followed by one character class (\w or \d) with  *)
(* a quantifier (star or plus), the class optionally in a capture group.   *)
(***************************************************************************)
WordChars == UpperLetters \cup LowerLetters \cup Digits \cup {"_"}

RECURSIVE RunLength(_, _, _)
\* Length of the longest run of characters of S in text from position n on.
RunLength(text, n, S) ==
    IF n <= Len(text) /\ text[n] \in S THEN 1 + RunLength(text, n + 1, S) ELSE 0

\* The match array: found, and element 1 (capture group 1) when found.
RegexMatch(pattern, text) ==
    LET g == IndexOf(pattern, {"("})
        b == IndexOf(pattern, {"\\"})
        lit == SubSeq(pattern, 1, (IF g # 0 THEN g ELSE b) - 1)
        class == IF pattern[b + 1] = "d" THEN Digits ELSE WordChars
        least == IF pattern[b + 2] = "+" THEN 1 ELSE 0
        LitAt(n) == /\ n + Len(lit) - 1 <= Len(text)
                    /\ \A j \in 1..Len(lit) : Fold(text[n + j - 1]) = Fold(lit[j])
        MatchAt(n) == LitAt(n) /\ RunLength(text, n + Len(lit), class) >= least
        starts == {n \in 1..(Len(text) + 1) : MatchAt(n)}
        first == CHOOSE n \in starts : \A m \in starts : n <= m
        run == SubSeq(text, first + Len(lit),
                      first + Len(lit) + RunLength(text, first + Len(lit), class) - 1)
    IN  IF starts = {} THEN [found |-> FALSE, g1 |-> Undefined]
        ELSE [found |-> TRUE, g1 |-> IF g # 0 THEN Str(run) ELSE Undefined]

(***************************************************************************)
(* Property access.                                                        *)
(***************************************************************************)
\* array[index] of a JavaScript array held as a sequence.
ArrayGet(array, index) ==
    IF index + 1 \in DOMAIN array THEN array[index + 1] ELSE Undefined

\* object[key] of a plain object held as a function from keys to values.
ObjectGet(object, key) ==
    IF key \in DOMAIN object THEN object[key] ELSE Undefined

EmptyObject == [x \in {} |-> Undefined]

(***************************************************************************)
(* The parsers of FileParser.  A spreadsheet file is given by the grid     *)
(* sheet_to_json(..., {header: 1}) reads from its first sheet, a delimited *)
(* file by its lines of cells, a PDF by the text items of its pages.       *)
(***************************************************************************)
\* Mutant of parseExcel: the first row is kept among the rows.
parseExcel_KeepsHeader(jsonData) ==
    [headers |-> ArrayGet(jsonData, 0),
     rows |-> jsonData,
     metadata |-> [totalRows |-> Len(jsonData), type |-> "excel"]]

\* Mutant of parseExcel: the row under the header is dropped with it.
parseExcel_DropsTwoRows(jsonData) ==
    [headers |-> ArrayGet(jsonData, 0),
     rows |-> IF Len(jsonData) <= 2 THEN <<>> ELSE Tail(Tail(jsonData)),
     metadata |-> [totalRows |-> IF Len(jsonData) <= 2 THEN 0 ELSE Len(jsonData) - 2,
                   type |-> "excel"]]

parseExcel(jsonData) ==
    [headers |-> ArrayGet(jsonData, 0),
     rows |-> IF jsonData = <<>> THEN <<>> ELSE Tail(jsonData),
     metadata |-> [totalRows |-> IF jsonData = <<>> THEN 0 ELSE Len(jsonData) - 1,
                   type |-> "excel"]]

\* csv-parse with columns: true, skip_empty_lines: true, trim: true: the first
\* line names the columns, every other line is a record keyed by them.
CsvRecords(lines) ==
    IF lines = <<>> THEN <<>>
    ELSE LET names == [n \in 1..Len(lines[1]) |-> Trim(lines[1][n])]
         IN  [r \in 1..(Len(lines) - 1) |->
                 [h \in {names[n] : n \in 1..Len(names)} |->
                     Str(Trim(lines[r + 1][CHOOSE n \in 1..Len(names) : names[n] = h]))]]

\* Object.keys(records[0]), in column order.
parseCsv(lines) ==
    LET records == CsvRecords(lines)
    IN  [headers |-> IF Len(records) > 0
                     THEN [n \in 1..Len(lines[1]) |-> Trim(lines[1][n])]
                     ELSE <<>>,
         rows |-> records,
         metadata |-> [totalRows |-> Len(records), type |-> "csv"]]

RECURSIVE JoinWith(_, _)
\* Array.prototype.join of strings with a separator.
JoinWith(parts, sep) ==
    IF parts = <<>> THEN <<>>
    ELSE IF Len(parts) = 1 THEN parts[1]
         ELSE parts[1] \o sep \o JoinWith(Tail(parts), sep)

ContentKey == <<"c", "o", "n", "t", "e", "n", "t">>

parsePdf(pages) ==
    LET PageText(page) ==
            JoinWith(SelectSeq(page, LAMBDA item : Trim(item) # <<>>), <<" ">>)
        textContent == JoinWith([n \in 1..Len(pages) |-> PageText(pages[n])], <<"\n">>)
    IN  [headers |-> <<ContentKey>>,
         rows |-> <<[key \in {ContentKey} |-> Str(textContent)]>>,
         metadata |-> [totalRows |-> 1, type |-> "pdf"]]

WordExcel == <<"e", "x", "c", "e", "l">>
WordSpreadsheet == <<"s", "p", "r", "e", "a", "d", "s", "h", "e", "e", "t">>
WordXlsx == <<"x", "l", "s", "x">>
WordXls == <<"x", "l", "s">>
WordCsv == <<"c", "s", "v">>
WordPdf == <<"p", "d", "f">>

\* The format parser parseFile's chain of fileType.includes(...) tests picks;
\* "none" when no test succeeds.
ParserFor(fileType) ==
    IF \/ Contains(fileType, WordExcel) \/ Contains(fileType, WordSpreadsheet)
       \/ Contains(fileType, WordXlsx) \/ Contains(fileType, WordXls)
    THEN "excel"
    ELSE IF Contains(fileType, WordCsv) THEN "csv"
         ELSE IF Contains(fileType, WordPdf) THEN "pdf"
              ELSE "none"

\* What parseFile hands back: the ParsedFileData it returns, or the message of
\* the Error it throws; invoked is the format parser it called, if any.
Parsed(parser, data) ==
    [thrown |-> FALSE, invoked |-> parser, data |-> data, message |-> <<>>]
\* parseFile's catch block: throw new Error(`... ${error.message}`).
ParseThrown(parser, message) ==
    [thrown |-> TRUE, invoked |-> parser, data |-> [kind |-> "none"],
     message |-> <<TxtParseError>> \o message]

\* parseFile.  The bytes of a file are held by what its library reads from
\* them (kind and content); a file of kind "corrupt" is one the library of
\* the chosen parser throws on, and its content is the library's message.
parseFile(f) ==
    LET parser == ParserFor(f.fileType)
    IN  IF ~f.exists THEN ParseThrown("none", <<TxtFileNotFound>> \o f.filePath)
        ELSE IF parser = "none"
             THEN ParseThrown("none", <<TxtUnsupported>> \o f.fileType)
             ELSE IF f.kind = "corrupt" THEN ParseThrown(parser, f.content)
                  ELSE CASE parser = "excel" -> Parsed(parser, parseExcel(f.content))
                         [] parser = "csv" -> Parsed(parser, parseCsv(f.content))
                         [] parser = "pdf" -> Parsed(parser, parsePdf(f.content))

(***************************************************************************)
(* FileParser.applyTemplate, tabular path.                                 *)
(***************************************************************************)
IsNullish(value) == value.t \in {"null", "undefined"}

\* const skipRows = template.skipRows || 0
SkipRowsOf(tpl) == IF tpl.skipRows = 0 THEN 0 ELSE tpl.skipRows

\* The branch taken at the head of applyTemplate.
UsesPdfPath(data, tpl) == tpl.fileType = "pdf" /\ data.metadata.type = "pdf"

\* The value of a column of a source row.
ResolveValue(type, sourceRow, mapping) ==
    IF type = "excel"
    THEN ArrayGet(sourceRow, excelColToIndex(mapping.sourceColumn))
    ELSE LET v == ObjectGet(sourceRow, mapping.sourceColumn)
         IN  IF Truthy(v) THEN v ELSE Null

RequiredMessage(name) ==
    <<TxtRequiredField, Quote>> \o name \o <<Quote, TxtHasNoValue>>

ConvertMessage(name, message) ==
    <<TxtField, Quote>> \o name \o <<Quote, TxtConvertError>> \o message

\* Mutant of MapColumn: a failed conversion pushes its entry but leaves
\* hasError as it was.
MapColumn_ConvertErrorNotFlagged(type, sourceRow, mapping, rowNo, acc) ==
    LET value == ResolveValue(type, sourceRow, mapping)
        missing == mapping.required /\ IsNullish(value)
        errs == IF missing
                THEN Append(acc.errs, [row |-> rowNo,
                                       message |-> RequiredMessage(mapping.name)])
                ELSE acc.errs
        conv == convertDataType(value, mapping.dataType)
    IN  IF conv.ok
        THEN [row |-> (mapping.name :> conv.val) @@ acc.row,
              errs |-> errs,
              hasError |-> acc.hasError \/ missing]
        ELSE [row |-> acc.row,
              errs |-> Append(errs, [row |-> rowNo,
                                     message |-> ConvertMessage(mapping.name,
                                                                conv.message)]),
              hasError |-> acc.hasError \/ missing]

\* Mutant of MapColumn: the required check tests for null alone, so an
\* undefined value passes it.
MapColumn_NullOnly(type, sourceRow, mapping, rowNo, acc) ==
    LET value == ResolveValue(type, sourceRow, mapping)
        missing == mapping.required /\ value = Null
        errs == IF missing
                THEN Append(acc.errs, [row |-> rowNo,
                                       message |-> RequiredMessage(mapping.name)])
                ELSE acc.errs
        conv == convertDataType(value, mapping.dataType)
    IN  IF conv.ok
        THEN [row |-> (mapping.name :> conv.val) @@ acc.row,
              errs |-> errs,
              hasError |-> acc.hasError \/ missing]
        ELSE [row |-> acc.row,
              errs |-> Append(errs, [row |-> rowNo,
                                     message |-> ConvertMessage(mapping.name,
                                                                conv.message)]),
              hasError |-> TRUE]

\* Mutant of MapColumn: an entry goes to the front of the row's entries.
MapColumn_PrependsError(type, sourceRow, mapping, rowNo, acc) ==
    LET value == ResolveValue(type, sourceRow, mapping)
        missing == mapping.required /\ IsNullish(value)
        errs == IF missing
                THEN <<[row |-> rowNo, message |-> RequiredMessage(mapping.name)]>>
                        \o acc.errs
                ELSE acc.errs
        conv == convertDataType(value, mapping.dataType)
    IN  IF conv.ok
        THEN [row |-> (mapping.name :> conv.val) @@ acc.row,
              errs |-> errs,
              hasError |-> acc.hasError \/ missing]
        ELSE [row |-> acc.row,
              errs |-> <<[row |-> rowNo,
                          message |-> ConvertMessage(mapping.name, conv.message)]>>
                          \o errs,
              hasError |-> TRUE]

\* One pass of the inner loop: acc holds mappedRow, the errors pushed for this
\* row so far, and hasError.
MapColumn(type, sourceRow, mapping, rowNo, acc) ==
    LET value == ResolveValue(type, sourceRow, mapping)
        missing == mapping.required /\ IsNullish(value)
        errs == IF missing
                THEN Append(acc.errs, [row |-> rowNo,
                                       message |-> RequiredMessage(mapping.name)])
                ELSE acc.errs
        conv == convertDataType(value, mapping.dataType)
    IN  IF conv.ok
        THEN [row |-> (mapping.name :> conv.val) @@ acc.row,
              errs |-> errs,
              hasError |-> acc.hasError \/ missing]
        ELSE [row |-> acc.row,
              errs |-> Append(errs, [row |-> rowNo,
                                     message |-> ConvertMessage(mapping.name,
                                                                conv.message)]),
              hasError |-> TRUE]

RECURSIVE MapColumns(_, _, _, _, _, _)
\* The inner loop over columnMappings, from column n on.
MapColumns(type, sourceRow, columns, n, rowNo, acc) ==
    IF n > Len(columns) THEN acc
    ELSE MapColumns(type, sourceRow, columns, n + 1, rowNo,
                    MapColumn(type, sourceRow, columns[n], rowNo, acc))

\* The body of the outer loop for source row index j.
MapSourceRow(data, tpl, j) ==
    MapColumns(data.metadata.type, data.rows[j + 1], tpl.columns, 1, j + 1,
               [row |-> EmptyObject, errs |-> <<>>, hasError |-> FALSE])

\* Mutant of ResultHeaders: the names come out last column first.
ResultHeaders_Reversed(tpl) ==
    [n \in 1..Len(tpl.columns) |-> tpl.columns[Len(tpl.columns) + 1 - n].name]

ResultHeaders(tpl) == [n \in 1..Len(tpl.columns) |-> tpl.columns[n].name]

\* The MappingResult of the tabular path.
TabularResult(data, tpl, rows, errs) ==
    [kind |-> "returned",
     headers |-> ResultHeaders(tpl),
     rows |-> rows,
     totalRows |-> Len(data.rows) - SkipRowsOf(tpl),
     mappedRows |-> Len(rows),
     errorRows |-> Len(errs),
     errors |-> errs]

(***************************************************************************)
(* FileParser.applyPdfTemplate                                             *)
(***************************************************************************)
\* fileData.rows[0]?.content || ''
PdfContent(data) ==
    LET row == ArrayGet(data.rows, 0)
        content == IF row = Undefined THEN Undefined ELSE ObjectGet(row, ContentKey)
    IN  IF Truthy(content) THEN ToStr(content) ELSE <<>>

\* template.pdfSettings?.patterns[mapping.name]
PatternOf(tpl, name) ==
    IF tpl.pdfSettings = Undefined THEN Undefined
    ELSE ObjectGet(tpl.pdfSettings.patterns, name)

NoPatternMessage(name) ==
    <<TxtRequiredField, Quote>> \o name \o <<Quote, TxtNoPattern>>

NotFoundMessage(name) ==
    <<TxtRequiredField, Quote>> \o name \o <<Quote, TxtNotFound>>

\* One pass of the loop over template.columns: the new mappedRow and errors, or
\* the Error that leaves the loop.
PdfColumn(content, tpl, mapping, row, errs) ==
    LET pattern == PatternOf(tpl, mapping.name)
        Continue(r, e) == [thrown |-> FALSE, row |-> r, errs |-> e, message |-> <<>>]
    IN  IF ~Truthy(pattern)
        THEN IF mapping.required
             THEN Continue(row, Append(errs, [row |-> 1,
                                              message |-> NoPatternMessage(mapping.name)]))
             ELSE Continue(row, errs)
        ELSE LET match == RegexMatch(pattern.s, content)
             IN  IF match.found /\ Truthy(match.g1)
                 THEN LET conv == convertDataType(match.g1, mapping.dataType)
                      IN  IF conv.ok
                          THEN Continue((mapping.name :> conv.val) @@ row, errs)
                          ELSE [thrown |-> TRUE, row |-> row, errs |-> errs,
                                message |-> conv.message]
                 ELSE IF mapping.required
                      THEN Continue(row, Append(errs,
                               [row |-> 1, message |-> NotFoundMessage(mapping.name)]))
                      ELSE Continue(row, errs)

\* Mutant of PdfResult: the record is returned whatever the errors.
PdfResult_AlwaysOneRow(tpl, row, errs) ==
    [kind |-> "returned",
     headers |-> ResultHeaders(tpl),
     rows |-> <<row>>,
     totalRows |-> 1,
     mappedRows |-> 1,
     errorRows |-> Len(errs),
     errors |-> errs]

\* The MappingResult of the free-text path.
PdfResult(tpl, row, errs) ==
    [kind |-> "returned",
     headers |-> ResultHeaders(tpl),
     rows |-> IF Len(errs) > 0 THEN <<>> ELSE <<row>>,
     totalRows |-> 1,
     mappedRows |-> IF Len(errs) > 0 THEN 0 ELSE 1,
     errorRows |-> Len(errs),
     errors |-> errs]

\* applyTemplate's catch block: throw new Error(`... ${error.message}`).
Rethrown(message) == [kind |-> "thrown", message |-> <<TxtApplyError>> \o message]

(***************************************************************************)
(* Inputs.                                                                 *)
(***************************************************************************)
TextAb == <<"a", "b">>
Text12 == <<"1", "2">>
ColA == <<"A">>
ColB == <<"B">>

\* Rows of a one-column sheet: the empty row, and a row whose cell A is text.
SheetRows == {<<>>, <<Str(<<>>)>>, <<Str(TextAb)>>, <<Str(Text12)>>}
\* Lines of a one-column delimited file (under the header line).
CsvLines == {<<<<>>>>, <<TextAb>>, <<Text12>>}

RECURSIVE SeqsUpTo(_, _)
\* The sequences of at most n elements of S.
SeqsUpTo(S, n) ==
    IF n = 0 THEN {<<>>}
    ELSE LET shorter == SeqsUpTo(S, n - 1)
         IN  shorter \cup {Append(q, x) : q \in {r \in shorter : Len(r) = n - 1}, x \in S}

HeaderRow == <<Str(<<"i", "d">>)>>

\* Declared file types: extensions and MIME types.
TypeXlsx == WordXlsx
TypeMsExcel == <<"a", "p", "p", "l", "i", "c", "a", "t", "i", "o", "n", "/",
                 "v", "n", "d", ".", "m", "s", "-">> \o WordExcel
TypeCsv == <<"t", "e", "x", "t", "/">> \o WordCsv
TypePdf == <<"a", "p", "p", "l", "i", "c", "a", "t", "i", "o", "n", "/">> \o WordPdf
TypePlain == <<"t", "e", "x", "t", "/", "p", "l", "a", "i", "n">>
TypePng == <<"i", "m", "a", "g", "e", "/", "p", "n", "g">>

UploadPath == <<"u", "p", "l", "o", "a", "d", "s", "/", "q">>

\* A file on disk whose bytes are of the given kind.
StoredFile(fileType, kind, content) ==
    [fileType |-> fileType, filePath |-> UploadPath, exists |-> TRUE,
     kind |-> kind, content |-> content]

ExcelFiles ==
    {StoredFile(TypeXlsx, "excel", <<>>)}
      \cup {StoredFile(TypeXlsx, "excel", <<HeaderRow>> \o rows) :
                rows \in SeqsUpTo(SheetRows, MaxRows)}

CsvFiles ==
    {StoredFile(TypeCsv, "csv", <<>>)}
      \cup {StoredFile(TypeCsv, "csv", <<<<ColA>>>> \o lines) :
                lines \in SeqsUpTo(CsvLines, MaxRows)}

PdfFiles ==
    {StoredFile(TypePdf, "pdf", pages) :
        pages \in {<<>>,
                   <<<<<<"T", ":", "1", "2">>>>>>,
                   <<<<<<"T", ":">>, <<" ">>, Text12>>>>,
                   <<<<<<"x">>>>, <<<<"T", ":", "a", "b">>>>>>}}

\* The message of the library that could not read the bytes.
LibraryMessage == <<"<library error>">>

\* Files parseFile fails on: a type no parser takes, bytes the chosen parser
\* cannot read, and a path with no file; and a sheet declared by its MIME type.
OtherFiles ==
    {StoredFile(ft, "csv", <<<<ColA>>, <<TextAb>>>>) : ft \in {TypePlain, TypePng}}
      \cup {StoredFile(ft, "corrupt", LibraryMessage) :
                ft \in {TypeXlsx, TypeMsExcel, TypeCsv, TypePdf}}
      \cup {[StoredFile(ft, "csv", <<>>) EXCEPT !.exists = FALSE] :
                ft \in {TypeCsv, TypePlain}}
      \cup {StoredFile(TypeMsExcel, "excel", <<HeaderRow, <<Str(TextAb)>>>>)}

Files == ExcelFiles \cup CsvFiles \cup PdfFiles \cup OtherFiles

DataTypes == {"string", "number", "date"}
FieldName(n) == <<"f", Ascii[n + 17]>>

\* The pattern t:(\w*), whose group may capture nothing.
PatternWord == <<"t", ":", "(", "\\", "w", "*", ")">>
\* The pattern T:\d+, which has no capture group.
PatternNoGroup == <<"T", ":", "\\", "d", "+">>

\* Where a column reads and what it converts to.  Column B lies beyond the
\* one-column files, so its value is always undefined, which convertDataType
\* returns as null before it looks at the type: one type is enough for B.
ColumnsAtA == {[sourceColumn |-> ColA, dataType |-> dt] : dt \in DataTypes}
ColumnsAtB == {[sourceColumn |-> ColB, dataType |-> "string"]}

RECURSIVE ColumnLists(_, _)
\* The column lists of n columns, the j-th named FieldName(j), each reading
\* and converting as one of shapes.
ColumnLists(n, shapes) ==
    IF n = 0 THEN {<<>>}
    ELSE {Append(cl, [name |-> FieldName(n), sourceColumn |-> sh.sourceColumn,
                      required |-> rq, dataType |-> sh.dataType]) :
            cl \in ColumnLists(n - 1, shapes), sh \in shapes, rq \in BOOLEAN}

\* The pattern tables over the names of a column list: each name has the
\* pattern with a group, or none.
PatternTables(cl) ==
    UNION {[names -> {Str(PatternWord)}] :
             names \in SUBSET {cl[n].name : n \in 1..Len(cl)}}

TabularTemplates ==
    {[fileType |-> ft, skipRows |-> sk, columns |-> cl, pdfSettings |-> Undefined] :
        ft \in {"excel", "csv"}, sk \in 0..MaxSkip,
        cl \in UNION {ColumnLists(n, ColumnsAtA \cup ColumnsAtB) : n \in 1..MaxFields}}

PdfTemplatesOf(cl) ==
    {[fileType |-> "pdf", skipRows |-> 0, columns |-> cl,
      pdfSettings |-> [patterns |-> pt]] : pt \in PatternTables(cl)}

PdfTemplates ==
    UNION {PdfTemplatesOf(cl) :
             cl \in UNION {ColumnLists(n, ColumnsAtA) : n \in 1..MaxFields}}
      \cup {[fileType |-> "pdf", skipRows |-> 0,
             columns |-> <<[name |-> FieldName(1), sourceColumn |-> ColA,
                            required |-> rq, dataType |-> "string"]>>,
             pdfSettings |-> [patterns |-> (FieldName(1) :> Str(pt))]] :
               rq \in BOOLEAN, pt \in {PatternNoGroup, <<>>}}

Templates == TabularTemplates \cup PdfTemplates

None == [kind |-> "none"]

\* The state of the server's stores and of its other requests.
routeVars == <<calls, quotations, response, uploadedFiles, currentFileId, processing>>
storeVars == <<memStorage, sqliteStorage, lastCall, history>>
serverVars == <<routeVars, storeVars>>

\* No storage object is in use.
StoresIdle ==
    /\ memStorage = None /\ sqliteStorage = None
    /\ lastCall = None /\ history = None

\* No store holds anything and no other request runs.
ServerIdle ==
    /\ calls = <<>>
    /\ quotations = <<>>
    /\ response = None
    /\ uploadedFiles = <<>>
    /\ currentFileId = 1
    /\ processing = {}
    /\ StoresIdle

(***************************************************************************)
(* The upload pipeline: parseFile, then applyTemplate on its result.       *)
(***************************************************************************)
\* The server runs on Node, whose Date takes the digit strings of the cells
\* above (new Date("12") is a date in 2001), so the pipeline has lenientDates.
Init ==
    /\ file \in Files
    /\ lenientDates = TRUE
    /\ fileData = None
    /\ template = None
    /\ pc = "start"
    /\ i = 0
    /\ k = 0
    /\ mappedRows = <<>>
    /\ mappedRow = EmptyObject
    /\ errors = <<>>
    /\ result = None
    /\ raw = None /\ dataType = "" /\ coerced = None
    /\ col = <<>> /\ ord = 0 /\ colIndex = 0
    /\ ServerIdle

unitVars == <<raw, dataType, coerced, col, ord, colIndex, serverVars>>

\* await FileParser.parseFile(filePath, file.type): the document, or the
\* Error that ends the request.
ParseFile ==
    /\ pc = "start"
    /\ LET r == parseFile(file)
       IN  IF r.thrown
           THEN /\ pc' = "unparsed"
                /\ result' = [kind |-> "thrown", message |-> r.message]
                /\ fileData' = fileData
           ELSE /\ pc' = "parsed"
                /\ fileData' = r.data
                /\ result' = result
    /\ UNCHANGED <<file, lenientDates, template, i, k, mappedRows, mappedRow,
                   errors, unitVars>>

\* Entry of applyTemplate: the locals are created and the path is chosen.
ApplyTemplate ==
    /\ pc = "parsed"
    /\ \E tpl \in Templates :
          /\ template' = tpl
          /\ IF UsesPdfPath(fileData, tpl)
             THEN pc' = "pdf" /\ k' = 1 /\ i' = i
             ELSE pc' = "tabular" /\ i' = SkipRowsOf(tpl) /\ k' = k
    /\ mappedRows' = <<>>
    /\ mappedRow' = EmptyObject
    /\ errors' = <<>>
    /\ UNCHANGED <<file, lenientDates, fileData, result, unitVars>>

\* Mutant of MapRow: the mapped fields are written into the source row itself.
MapRow_WritesSourceRow ==
    /\ pc = "tabular"
    /\ i < Len(fileData.rows)
    /\ LET r == MapSourceRow(fileData, template, i)
       IN  /\ errors' = errors \o r.errs
           /\ mappedRows' = IF ~r.hasError THEN Append(mappedRows, r.row)
                            ELSE mappedRows
           /\ fileData' = [fileData EXCEPT !.rows[i + 1] = r.row]
    /\ i' = i + 1
    /\ UNCHANGED <<file, lenientDates, template, pc, k, mappedRow,
                   result, unitVars>>

\* One iteration of the loop over sourceData.
MapRow ==
    /\ pc = "tabular"
    /\ i < Len(fileData.rows)
    /\ LET r == MapSourceRow(fileData, template, i)
       IN  /\ errors' = errors \o r.errs
           /\ mappedRows' = IF ~r.hasError THEN Append(mappedRows, r.row)
                            ELSE mappedRows
    /\ i' = i + 1
    /\ UNCHANGED <<file, lenientDates, fileData, template, pc, k, mappedRow,
                   result, unitVars>>

ReturnTabular ==
    /\ pc = "tabular"
    /\ ~(i < Len(fileData.rows))
    /\ result' = TabularResult(fileData, template, mappedRows, errors)
    /\ pc' = "done"
    /\ UNCHANGED <<file, lenientDates, fileData, template, i, k, mappedRows,
                   mappedRow, errors, unitVars>>

\* One iteration of the loop of applyPdfTemplate; a conversion Error leaves
\* applyPdfTemplate and is rethrown by the catch block of applyTemplate.
PdfField ==
    /\ pc = "pdf"
    /\ k <= Len(template.columns)
    /\ LET r == PdfColumn(PdfContent(fileData), template, template.columns[k],
                          mappedRow, errors)
       IN  IF r.thrown
           THEN /\ pc' = "thrown"
                /\ result' = Rethrown(r.message)
                /\ UNCHANGED <<k, mappedRow, errors>>
           ELSE /\ mappedRow' = r.row
                /\ errors' = r.errs
                /\ k' = k + 1
                /\ UNCHANGED <<pc, result>>
    /\ UNCHANGED <<file, lenientDates, fileData, template, i, mappedRows, unitVars>>

ReturnPdf ==
    /\ pc = "pdf"
    /\ k > Len(template.columns)
    /\ result' = PdfResult(template, mappedRow, errors)
    /\ pc' = "done"
    /\ UNCHANGED <<file, lenientDates, fileData, template, i, k, mappedRows,
                   mappedRow, errors, unitVars>>

Next ==
    \/ ParseFile
    \/ ApplyTemplate
    \/ MapRow
    \/ ReturnTabular
    \/ PdfField
    \/ ReturnPdf

Spec == Init /\ [][Next]_vars

(***************************************************************************)
(* convertDataType on its own: one call on a raw value and a data type.    *)
(***************************************************************************)
RawChars == {"1", "0", "-", ".", " ", "e", "x", "a"}

IsoLeapDay == <<"2", "0", "2", "4", "-", "0", "2", "-", "2", "9">>
IsoNoSuchDay == <<"2", "0", "2", "3", "-", "0", "2", "-", "2", "9">>
IsoNoSuchMonth == <<"2", "0", "2", "4", "-", "1", "3", "-", "0", "1">>

RawValues ==
    {Undefined, Null}
      \cup {Str(q) : q \in SeqsUpTo(RawChars, MaxRawLen)}
      \cup {Str(q) : q \in {InfinityText, <<"-">> \o InfinityText,
                            <<"1", "e", "9", "9", "9">>, <<"1", "e", "-", "9", "9", "9">>,
                            <<"0", "x", "1", "f">>, IsoLeapDay, IsoNoSuchDay,
                            IsoNoSuchMonth}}

InitCoerce ==
    /\ raw \in RawValues
    /\ dataType \in DataTypes
    /\ lenientDates \in BOOLEAN
    /\ coerced = None
    /\ pc = "coerce"
    /\ file = None /\ fileData = None /\ template = None
    /\ i = 0 /\ k = 0
    /\ mappedRows = <<>> /\ mappedRow = EmptyObject /\ errors = <<>>
    /\ result = None
    /\ col = <<>> /\ ord = 0 /\ colIndex = 0
    /\ ServerIdle

Coerce ==
    /\ pc = "coerce"
    /\ coerced' = convertDataType(raw, dataType)
    /\ pc' = "coerced"
    /\ UNCHANGED <<file, lenientDates, fileData, template, i, k, mappedRows,
                   mappedRow, errors, result, raw, dataType, col, ord, colIndex,
                   serverVars>>

NextCoerce == Coerce

SpecCoerce == InitCoerce /\ [][NextCoerce]_vars

(***************************************************************************)
(* excelColToIndex on its own: the column letters are walked in Excel      *)
(* column order (A..Z, AA..AZ, BA.., shorter first) and each is resolved.  *)
(***************************************************************************)
RECURSIVE NextColumn(_)
\* The column after c in Excel column order.
NextColumn(c) ==
    IF c = <<>> THEN <<"A">>
    ELSE LET last == c[Len(c)]
             front == SubSeq(c, 1, Len(c) - 1)
         IN  IF last = "Z" THEN NextColumn(front) \o <<"A">>
             ELSE front \o <<Ascii[CharCode(last) - 31 + 1]>>

InitCol ==
    /\ col = <<"A">>
    /\ ord = 0
    /\ colIndex = excelColToIndex(<<"A">>)
    /\ pc = "col"
    /\ file = None /\ fileData = None /\ template = None
    /\ lenientDates = FALSE
    /\ i = 0 /\ k = 0
    /\ mappedRows = <<>> /\ mappedRow = EmptyObject /\ errors = <<>>
    /\ result = None
    /\ raw = None /\ dataType = "" /\ coerced = None
    /\ ServerIdle

ResolveNextColumn ==
    /\ pc = "col"
    /\ Len(NextColumn(col)) <= MaxColLen
    /\ col' = NextColumn(col)
    /\ ord' = ord + 1
    /\ colIndex' = excelColToIndex(NextColumn(col))
    /\ UNCHANGED <<file, lenientDates, fileData, template, pc, i, k, mappedRows,
                   mappedRow, errors, result, raw, dataType, coerced, serverVars>>

NextCol == ResolveNextColumn

SpecCol == InitCol /\ [][NextCol]_vars

(***************************************************************************)
(* Delimited export: POST /export/csv and exportToCsv.  The store of       *)
(* quotations is filled by creating quotations; an export request writes   *)
(* the records it selects to a file and answers with it.                   *)
(***************************************************************************)
\* The columns of a stored quotation, in the order of its keys.
QuotationKeys == <<<<"i", "d">>, <<"p", "a", "r", "t", "n", "e", "r">>>>

Partners == {TextAb, Text12, <<>>}

\* The cells of a record, in the order of its keys.
RecordCells(record) == <<<<Ascii[record.id + 17]>>, record.partner>>

\* XLSX.utils.json_to_sheet(data): a header row of the keys met in the
\* records, then one row per record; no record gives no key.
json_to_sheet(data) ==
    <<IF data = <<>> THEN <<>> ELSE QuotationKeys>>
        \o [n \in 1..Len(data) |-> RecordCells(data[n])]

\* The text XLSX.writeFile(wb, path, {bookType: 'csv'}) writes for a sheet:
\* the cells of a row joined by commas, the rows by line feeds.
sheet_to_csv(sheet) ==
    JoinWith([r \in 1..Len(sheet) |-> JoinWith(sheet[r], <<",">>)], <<"\n">>)

exportToCsv(data) == sheet_to_csv(json_to_sheet(data))

RECURSIVE Lines(_)
\* The lines of a text; the empty text has none.
Lines(text) ==
    IF text = <<>> THEN <<>>
    ELSE LET nl == IndexOf(text, {"\n"})
         IN  IF nl = 0 THEN <<text>>
             ELSE <<SubSeq(text, 1, nl - 1)>> \o Lines(From(text, nl + 1))

\* sqliteStorage.getQuotation(id)
getQuotation(id) == IF id \in DOMAIN quotations THEN quotations[id] ELSE Undefined

\* The quotations an export request with body {ids} writes.
ExportSelection(ids) ==
    IF ids.t = "array" /\ Len(ids.items) > 0
    THEN SelectSeq([n \in 1..Len(ids.items) |-> getQuotation(ids.items[n])],
                   LAMBDA q : q # Undefined)
    ELSE quotations

TxtNoExportData == "naebonael deiteoga eopseupnida"   \* 내보낼 데이터가 없습니다

\* The bodies of an export request: no ids, or a list of ids.
ExportIds ==
    {Undefined} \cup {[t |-> "array", items |-> ids] :
                         ids \in SeqsUpTo(1..(MaxQuotations + 1), 2)}

InitExport ==
    /\ pc = "export"
    /\ quotations = <<>>
    /\ response = None
    /\ calls = <<>> /\ uploadedFiles = <<>> /\ currentFileId = 1 /\ processing = {}
    /\ file = None /\ fileData = None /\ template = None
    /\ StoresIdle
    /\ lenientDates = TRUE
    /\ i = 0 /\ k = 0
    /\ mappedRows = <<>> /\ mappedRow = EmptyObject /\ errors = <<>>
    /\ result = None
    /\ raw = None /\ dataType = "" /\ coerced = None
    /\ col = <<>> /\ ord = 0 /\ colIndex = 0

pipelineVars == <<file, lenientDates, fileData, template, pc, i, k, mappedRows,
                  mappedRow, errors, result, raw, dataType, coerced, col, ord,
                  colIndex>>

\* A quotation is stored under the next id.
CreateQuotation ==
    /\ Len(quotations) < MaxQuotations
    /\ \E partner \in Partners :
          quotations' = Append(quotations,
                               [id |-> Len(quotations) + 1, partner |-> partner])
    /\ UNCHANGED <<pipelineVars, storeVars, response, calls, uploadedFiles, currentFileId,
                   processing>>

\* POST /export/csv: 404 when nothing is selected, else the file exportToCsv
\* wrote, sent as the download.
ExportCsv ==
    /\ \E ids \in ExportIds :
          LET selected == ExportSelection(ids)
          IN  response' = IF Len(selected) = 0
                          THEN [ids |-> ids, status |-> 404, error |-> TxtNoExportData]
                          ELSE [ids |-> ids, status |-> 200,
                                download |-> exportToCsv(selected)]
    /\ UNCHANGED <<pipelineVars, storeVars, quotations, calls, uploadedFiles, currentFileId,
                   processing>>

NextExport == CreateQuotation \/ ExportCsv

SpecExport == InitExport /\ [][NextExport]_vars

(***************************************************************************)
(* applyTemplate as one function of its arguments, and two calls of it     *)
(* running side by side, each on its own document and template, their      *)
(* loop iterations interleaved in every order.                             *)
(***************************************************************************)
RECURSIVE TabularRun(_, _, _, _, _)
\* The loop over sourceData from row index j on, then the return.
TabularRun(data, tpl, j, rows, errs) ==
    IF ~(j < Len(data.rows)) THEN TabularResult(data, tpl, rows, errs)
    ELSE LET r == MapSourceRow(data, tpl, j)
         IN  TabularRun(data, tpl, j + 1,
                        IF ~r.hasError THEN Append(rows, r.row) ELSE rows,
                        errs \o r.errs)

RECURSIVE PdfRun(_, _, _, _, _)
\* The loop over template.columns from column n on, then the return.
PdfRun(data, tpl, n, row, errs) ==
    IF n > Len(tpl.columns) THEN PdfResult(tpl, row, errs)
    ELSE LET r == PdfColumn(PdfContent(data), tpl, tpl.columns[n], row, errs)
         IN  IF r.thrown THEN Rethrown(r.message)
             ELSE PdfRun(data, tpl, n + 1, r.row, r.errs)

\* The MappingResult applyTemplate returns, or the Error it throws.
applyTemplate(data, tpl) ==
    IF UsesPdfPath(data, tpl) THEN PdfRun(data, tpl, 1, EmptyObject, <<>>)
    ELSE TabularRun(data, tpl, SkipRowsOf(tpl), <<>>, <<>>)

Callers == {1, 2}

ConcurrentDocuments ==
    <<parseExcel(<<HeaderRow, <<Str(TextAb)>>, <<>>>>),
      parseCsv(<<<<ColA>>, <<Text12>>, <<TextAb>>>>),
      parsePdf(<<<<<<"T", ":", "1", "2">>>>>>),
      parsePdf(<<<<<<"T", ":", "a", "b">>>>>>)>>

ConcurrentTemplates ==
    {[fileType |-> ft, skipRows |-> 0,
      columns |-> <<[name |-> FieldName(1), sourceColumn |-> ColA,
                     required |-> TRUE, dataType |-> dt]>>,
      pdfSettings |-> IF ft = "pdf"
                      THEN [patterns |-> (FieldName(1) :> Str(PatternWord))]
                      ELSE Undefined] :
        ft \in {"excel", "pdf"}, dt \in {"string", "number"}}

\* A call at its entry: the arguments, and no local yet.
NewCall(data, tpl) ==
    [fileData |-> data, template |-> tpl, pc |-> "called", i |-> 0, k |-> 0,
     mappedRows |-> <<>>, mappedRow |-> EmptyObject, errors |-> <<>>,
     result |-> None]

InitConcurrent ==
    /\ pc = "concurrent"
    /\ \E d1, d2 \in DOMAIN ConcurrentDocuments, t1, t2 \in ConcurrentTemplates :
          calls = <<NewCall(ConcurrentDocuments[d1], t1),
                    NewCall(ConcurrentDocuments[d2], t2)>>
    /\ quotations = <<>> /\ response = None
    /\ uploadedFiles = <<>> /\ currentFileId = 1 /\ processing = {}
    /\ file = None /\ fileData = None /\ template = None
    /\ StoresIdle
    /\ lenientDates = TRUE
    /\ i = 0 /\ k = 0
    /\ mappedRows = <<>> /\ mappedRow = EmptyObject /\ errors = <<>>
    /\ result = None
    /\ raw = None /\ dataType = "" /\ coerced = None
    /\ col = <<>> /\ ord = 0 /\ colIndex = 0

otherThanCalls == <<pipelineVars, storeVars, quotations, response, uploadedFiles,
                    currentFileId, processing>>

\* Entry of the call c: its locals are created and its path is chosen.
CallApplyTemplate(c) ==
    /\ calls[c].pc = "called"
    /\ calls' = [calls EXCEPT ![c] =
                    IF UsesPdfPath(calls[c].fileData, calls[c].template)
                    THEN [calls[c] EXCEPT !.pc = "pdf", !.k = 1]
                    ELSE [calls[c] EXCEPT !.pc = "tabular",
                                          !.i = SkipRowsOf(calls[c].template)]]
    /\ UNCHANGED otherThanCalls

\* Mutant of CallMapRow: errors is one array shared by the calls.
CallMapRow_SharedErrors(c) ==
    /\ calls[c].pc = "tabular"
    /\ calls[c].i < Len(calls[c].fileData.rows)
    /\ LET r == MapSourceRow(calls[c].fileData, calls[c].template, calls[c].i)
       IN  calls' = [d \in Callers |->
                       IF d = c
                       THEN [calls[d] EXCEPT
                               !.errors = @ \o r.errs,
                               !.mappedRows = IF ~r.hasError THEN Append(@, r.row)
                                              ELSE @,
                               !.i = @ + 1]
                       ELSE [calls[d] EXCEPT !.errors = @ \o r.errs]]
    /\ UNCHANGED otherThanCalls

\* One iteration of the row loop of the call c.
CallMapRow(c) ==
    /\ calls[c].pc = "tabular"
    /\ calls[c].i < Len(calls[c].fileData.rows)
    /\ LET r == MapSourceRow(calls[c].fileData, calls[c].template, calls[c].i)
       IN  calls' = [calls EXCEPT
                       ![c].errors = @ \o r.errs,
                       ![c].mappedRows = IF ~r.hasError THEN Append(@, r.row) ELSE @,
                       ![c].i = @ + 1]
    /\ UNCHANGED otherThanCalls

CallReturnTabular(c) ==
    /\ calls[c].pc = "tabular"
    /\ ~(calls[c].i < Len(calls[c].fileData.rows))
    /\ calls' = [calls EXCEPT
                    ![c].result = TabularResult(calls[c].fileData, calls[c].template,
                                                calls[c].mappedRows, calls[c].errors),
                    ![c].pc = "done"]
    /\ UNCHANGED otherThanCalls

\* One iteration of the column loop of the call c on the free-text path.
CallPdfField(c) ==
    /\ calls[c].pc = "pdf"
    /\ calls[c].k <= Len(calls[c].template.columns)
    /\ LET r == PdfColumn(PdfContent(calls[c].fileData), calls[c].template,
                          calls[c].template.columns[calls[c].k],
                          calls[c].mappedRow, calls[c].errors)
       IN  calls' = [calls EXCEPT ![c] =
                       IF r.thrown
                       THEN [@ EXCEPT !.pc = "thrown", !.result = Rethrown(r.message)]
                       ELSE [@ EXCEPT !.mappedRow = r.row, !.errors = r.errs,
                                      !.k = @ + 1]]
    /\ UNCHANGED otherThanCalls

CallReturnPdf(c) ==
    /\ calls[c].pc = "pdf"
    /\ calls[c].k > Len(calls[c].template.columns)
    /\ calls' = [calls EXCEPT
                    ![c].result = PdfResult(calls[c].template, calls[c].mappedRow,
                                            calls[c].errors),
                    ![c].pc = "done"]
    /\ UNCHANGED otherThanCalls

NextConcurrent ==
    \E c \in Callers :
        \/ CallApplyTemplate(c)
        \/ CallMapRow(c)
        \/ CallReturnTabular(c)
        \/ CallPdfField(c)
        \/ CallReturnPdf(c)

SpecConcurrent == InitConcurrent /\ [][NextConcurrent]_vars

(***************************************************************************)
(* The uploaded-file store behind the routes: POST /upload, POST           *)
(* /apply-template (two status updates around the extraction) and PUT      *)
(* /api/uploaded-files/:id.                                                *)
(***************************************************************************)
TemplateIds == {1}

\* The status texts a PUT body may carry: insertUploadedFileSchema takes any
\* text for status.
BodyStatuses == {"pending", "completed", "archived", ""}

InitFiles ==
    /\ pc = "files"
    /\ uploadedFiles = <<>>
    /\ currentFileId = 1
    /\ processing = {}
    /\ calls = <<>> /\ quotations = <<>> /\ response = None
    /\ file = None /\ fileData = None /\ template = None
    /\ StoresIdle
    /\ lenientDates = TRUE
    /\ i = 0 /\ k = 0
    /\ mappedRows = <<>> /\ mappedRow = EmptyObject /\ errors = <<>>
    /\ result = None
    /\ raw = None /\ dataType = "" /\ coerced = None
    /\ col = <<>> /\ ord = 0 /\ colIndex = 0

\* storage.updateUploadedFile(id, updateData): { ...file, ...updateData }
updateUploadedFile(id, updateData) ==
    [uploadedFiles EXCEPT ![id] =
        [key \in DOMAIN @ |-> IF key \in DOMAIN updateData THEN updateData[key]
                              ELSE @[key]]]

\* POST /upload: a file is stored with status 'pending' and no template (0 for null).
Upload ==
    /\ currentFileId <= MaxFiles
    /\ uploadedFiles' = Append(uploadedFiles,
                               [id |-> currentFileId, status |-> "pending",
                                templateId |-> 0])
    /\ currentFileId' = currentFileId + 1
    /\ UNCHANGED <<pipelineVars, storeVars, calls, quotations, response, processing>>

\* POST /apply-template up to its first update: the file and the template
\* exist, and the file becomes 'processing' under the template.
BeginApplyTemplate ==
    /\ \E fileId \in DOMAIN uploadedFiles, templateId \in TemplateIds :
          /\ fileId \notin processing
          /\ uploadedFiles' = updateUploadedFile(fileId,
                                  [status |-> "processing", templateId |-> templateId])
          /\ processing' = processing \cup {fileId}
    /\ UNCHANGED <<pipelineVars, storeVars, calls, quotations, response, currentFileId>>

\* POST /apply-template from the extraction on: 'completed' when extraction,
\* mapping and the insert of the quotation went through, 'failed' when one of
\* them threw.
FinishApplyTemplate ==
    /\ \E fileId \in processing, status \in {"completed", "failed"} :
          /\ uploadedFiles' = updateUploadedFile(fileId, [status |-> status])
          /\ processing' = processing \ {fileId}
    /\ UNCHANGED <<pipelineVars, storeVars, calls, quotations, response, currentFileId>>

\* PUT /api/uploaded-files/:id with a body that passed
\* insertUploadedFileSchema.partial(): the fields given replace the stored.
PutUploadedFile ==
    /\ \E id \in DOMAIN uploadedFiles :
          \/ \E status \in BodyStatuses :
                uploadedFiles' = updateUploadedFile(id, [status |-> status])
          \/ \E templateId \in TemplateIds :
                uploadedFiles' = updateUploadedFile(id, [templateId |-> templateId])
    /\ UNCHANGED <<pipelineVars, storeVars, calls, quotations, response, currentFileId,
                   processing>>

NextFiles ==
    \/ Upload
    \/ BeginApplyTemplate
    \/ FinishApplyTemplate
    \/ PutUploadedFile

SpecFiles == InitFiles /\ [][NextFiles]_vars

(***************************************************************************)
(* POST /apply-template of file-routes, one await at a time.  Each request *)
(* is a record in calls: its body, the line it stands at, the quotations   *)
(* it inserted, the last status it wrote and the response it sent (0 for   *)
(* none).  A store call or the extraction either returns or throws; a      *)
(* throw inside the try block lands in the catch block, a throw inside the *)
(* catch block rejects the handler's promise and nothing is sent.          *)
(***************************************************************************)
RequestFileIds == {1, 2}
RequestTemplateIds == {1, 2}

NewRequest ==
    [pc |-> "idle", fileId |-> 0, templateId |-> 0, created |-> 0,
     wrote |-> "", responded |-> 0]

InitApply ==
    /\ pc = "apply"
    /\ calls = <<NewRequest, NewRequest>>
    /\ uploadedFiles = <<>>
    /\ currentFileId = 1
    /\ processing = {}
    /\ quotations = <<>> /\ response = None
    /\ file = None /\ fileData = None /\ template = None
    /\ StoresIdle
    /\ lenientDates = TRUE
    /\ i = 0 /\ k = 0
    /\ mappedRows = <<>> /\ mappedRow = EmptyObject /\ errors = <<>>
    /\ result = None
    /\ raw = None /\ dataType = "" /\ coerced = None
    /\ col = <<>> /\ ord = 0 /\ colIndex = 0

applyVars == <<pipelineVars, storeVars, response, currentFileId, processing>>

\* SQLiteStorage.updateUploadedFile(id, fileData): UPDATE ... SET fileData
\* WHERE id = id; no row is touched when there is no such file.
sqliteUpdateUploadedFile(id, updateData) ==
    IF id \in DOMAIN uploadedFiles THEN updateUploadedFile(id, updateData)
    ELSE uploadedFiles

\* The request arrives: const { fileId, templateId } = req.body.
ReceiveApplyTemplate(c) ==
    /\ calls[c].pc = "idle"
    /\ \E fileId \in RequestFileIds, templateId \in RequestTemplateIds :
          calls' = [calls EXCEPT ![c].pc = "getFile", ![c].fileId = fileId,
                                 ![c].templateId = templateId]
    /\ UNCHANGED <<applyVars, uploadedFiles, quotations>>

\* getUploadedFile(fileId): 404 when there is no such file.
ApplyGetUploadedFile(c) ==
    /\ calls[c].pc = "getFile"
    /\ \E ok \in BOOLEAN :
          calls' = [calls EXCEPT ![c] =
                      IF ~ok THEN [calls[c] EXCEPT !.pc = "catch"]
                      ELSE IF calls[c].fileId \notin DOMAIN uploadedFiles
                      THEN [calls[c] EXCEPT !.pc = "ended", !.responded = 404]
                      ELSE [calls[c] EXCEPT !.pc = "getTemplate"]]
    /\ UNCHANGED <<applyVars, uploadedFiles, quotations>>

\* getTemplate(templateId): 404 when there is no such template.
ApplyGetTemplate(c) ==
    /\ calls[c].pc = "getTemplate"
    /\ \E ok \in BOOLEAN :
          calls' = [calls EXCEPT ![c] =
                      IF ~ok THEN [calls[c] EXCEPT !.pc = "catch"]
                      ELSE IF calls[c].templateId \notin TemplateIds
                      THEN [calls[c] EXCEPT !.pc = "ended", !.responded = 404]
                      ELSE [calls[c] EXCEPT !.pc = "setProcessing"]]
    /\ UNCHANGED <<applyVars, uploadedFiles, quotations>>

\* sqliteUpdateUploadedFile(fileId, { status: 'processing', templateId }).
ApplySetProcessing(c) ==
    /\ calls[c].pc = "setProcessing"
    /\ \E ok \in BOOLEAN :
          IF ok
          THEN /\ uploadedFiles' =
                     sqliteUpdateUploadedFile(calls[c].fileId,
                                        [status |-> "processing",
                                         templateId |-> calls[c].templateId])
               /\ calls' = [calls EXCEPT ![c].pc = "extract",
                                          ![c].wrote = "processing"]
          ELSE /\ calls' = [calls EXCEPT ![c].pc = "catch"]
               /\ UNCHANGED uploadedFiles
    /\ UNCHANGED <<applyVars, quotations>>

\* extractDataFromFile, then applyTemplateMapping on what it returned.
ApplyExtractAndMap(c) ==
    /\ calls[c].pc = "extract"
    /\ \E ok \in BOOLEAN :
          calls' = [calls EXCEPT ![c].pc = IF ok THEN "createQuotation"
                                          ELSE "catch"]
    /\ UNCHANGED <<applyVars, uploadedFiles, quotations>>

\* createQuotation({...}): the row is inserted under the next id.
ApplyCreateQuotation(c) ==
    /\ calls[c].pc = "createQuotation"
    /\ \E ok \in BOOLEAN :
          IF ok
          THEN /\ \E partner \in Partners :
                     quotations' = Append(quotations,
                                          [id |-> Len(quotations) + 1,
                                           partner |-> partner])
               /\ calls' = [calls EXCEPT ![c].pc = "setCompleted",
                                          ![c].created = @ + 1]
          ELSE /\ calls' = [calls EXCEPT ![c].pc = "catch"]
               /\ UNCHANGED quotations
    /\ UNCHANGED <<applyVars, uploadedFiles>>

\* sqliteUpdateUploadedFile(fileId, { status: 'completed' }), then the 200 response.
ApplySetCompleted(c) ==
    /\ calls[c].pc = "setCompleted"
    /\ \E ok \in BOOLEAN :
          IF ok
          THEN /\ uploadedFiles' = sqliteUpdateUploadedFile(calls[c].fileId,
                                                      [status |-> "completed"])
               /\ calls' = [calls EXCEPT ![c].pc = "ended",
                                          ![c].wrote = "completed",
                                          ![c].responded = 200]
          ELSE /\ calls' = [calls EXCEPT ![c].pc = "catch"]
               /\ UNCHANGED uploadedFiles
    /\ UNCHANGED <<applyVars, quotations>>

\* The catch block: sqliteUpdateUploadedFile(req.body.fileId, { status: 'failed' })
\* when the body names a file, then the 500 response.  The update is awaited
\* with nothing around it: when it throws, the handler ends there.
ApplyCatch(c) ==
    /\ calls[c].pc = "catch"
    /\ \E ok \in BOOLEAN :
          IF ok
          THEN /\ uploadedFiles' =
                     IF calls[c].fileId # 0
                     THEN sqliteUpdateUploadedFile(calls[c].fileId,
                                             [status |-> "failed"])
                     ELSE uploadedFiles
               /\ calls' = [calls EXCEPT ![c].pc = "ended",
                                          ![c].wrote = IF calls[c].fileId # 0
                                                       THEN "failed" ELSE @,
                                          ![c].responded = 500]
          ELSE /\ calls[c].fileId # 0
               /\ calls' = [calls EXCEPT ![c].pc = "ended"]
               /\ UNCHANGED uploadedFiles
    /\ UNCHANGED <<applyVars, quotations>>

NextApply ==
    \/ Upload
    \/ \E c \in Callers :
          \/ ReceiveApplyTemplate(c)
          \/ ApplyGetUploadedFile(c)
          \/ ApplyGetTemplate(c)
          \/ ApplySetProcessing(c)
          \/ ApplyExtractAndMap(c)
          \/ ApplyCreateQuotation(c)
          \/ ApplySetCompleted(c)
          \/ ApplyCatch(c)

SpecApply == InitApply /\ [][NextApply]_vars

(***************************************************************************)
(* MemStorage.  Each entity kind has a Map from id to entity and a counter *)
(* for the next id.  An entity is its id and, under data, the fields its   *)
(* insert schema picks; a quotation has a version as well.  The payload of *)
(* an update is Partial<Insert...>: data is Undefined when the key is not  *)
(* given.  The timestamps are left out.                                    *)
(***************************************************************************)
Kinds == {"column", "template", "quotation", "file"}

\* The entities the constructor stores: initializeDefaultColumns and
\* initializeSampleData.
SeedCount(kind) ==
    CASE kind = "column" -> 6
      [] kind = "template" -> 2
      [] kind = "quotation" -> 3
      [] kind = "file" -> 3

NewEntity(kind, id, data) ==
    IF kind = "quotation" THEN [id |-> id, data |-> data, version |-> 1]
    ELSE [id |-> id, data |-> data]

\* new MemStorage()
MemStorageNew ==
    [maps |-> [kind \in Kinds |->
                  [id \in 1..SeedCount(kind) |-> NewEntity(kind, id, Str(TextAb))]],
     current |-> [kind \in Kinds |-> SeedCount(kind) + 1]]

\* map.set(id, entity)
MapSet(map, id, entity) ==
    [x \in DOMAIN map \cup {id} |-> IF x = id THEN entity ELSE map[x]]

\* map.delete(id)
MapDelete(map, id) == [x \in DOMAIN map \ {id} |-> map[x]]

\* { ...entity, ...updateData }
Spread(entity, updateData) ==
    IF updateData.data = Undefined THEN entity
    ELSE [entity EXCEPT !.data = updateData.data]

NotFoundText(kind) ==
    CASE kind = "column" -> "Column not found"
      [] kind = "template" -> "Template not found"
      [] kind = "quotation" -> "Quotation not found"
      [] kind = "file" -> "File not found"

\* Mutant of memCreate: the id is one more than the largest id stored.
memCreate_AfterLargestStored(store, kind, insert) ==
    LET ids == DOMAIN store.maps[kind]
        id == IF ids = {} THEN 1
              ELSE 1 + CHOOSE x \in ids : \A y \in ids : y <= x
        entity == NewEntity(kind, id, insert.data)
    IN  [store |-> [store EXCEPT !.maps[kind] = MapSet(@, id, entity),
                                 !.current[kind] = id + 1],
         thrown |-> FALSE, value |-> entity]

\* createColumn, createTemplate, createQuotation, createUploadedFile
memCreate(store, kind, insert) ==
    LET id == store.current[kind]
        entity == NewEntity(kind, id, insert.data)
    IN  [store |-> [store EXCEPT !.maps[kind] = MapSet(@, entity.id, entity),
                                 !.current[kind] = @ + 1],
         thrown |-> FALSE, value |-> entity]

\* getTemplate, getQuotation
memGet(store, kind, id) ==
    [store |-> store, thrown |-> FALSE,
     value |-> IF id \in DOMAIN store.maps[kind] THEN store.maps[kind][id]
               ELSE Undefined]

\* Mutant of memUpdate: the version of a quotation is left as it was.
memUpdate_VersionKept(store, kind, id, updateData) ==
    IF id \notin DOMAIN store.maps[kind]
    THEN [store |-> store, thrown |-> TRUE, value |-> NotFoundText(kind)]
    ELSE LET updated == Spread(store.maps[kind][id], updateData)
         IN  [store |-> [store EXCEPT !.maps[kind] = MapSet(@, id, updated)],
              thrown |-> FALSE, value |-> updated]

\* updateColumn, updateTemplate, updateQuotation, updateUploadedFile
memUpdate(store, kind, id, updateData) ==
    IF id \notin DOMAIN store.maps[kind]
    THEN [store |-> store, thrown |-> TRUE, value |-> NotFoundText(kind)]
    ELSE LET entity == store.maps[kind][id]
             spread == Spread(entity, updateData)
             updated == IF kind = "quotation"
                        THEN [spread EXCEPT !.version = entity.version + 1]
                        ELSE spread
         IN  [store |-> [store EXCEPT !.maps[kind] = MapSet(@, id, updated)],
              thrown |-> FALSE, value |-> updated]

\* deleteColumn, deleteTemplate, deleteQuotation, deleteUploadedFile
memDelete(store, kind, id) ==
    [store |-> [store EXCEPT !.maps[kind] = MapDelete(@, id)],
     thrown |-> FALSE, value |-> Undefined]

\* The payloads of create and update.
InsertPayloads == {[data |-> Str(TextAb)], [data |-> Str(Text12)]}
UpdatePayloads == {[data |-> Undefined], [data |-> Str(Text12)]}

\* The ids a call is made with: the first, the last issued, the one not yet
\* issued.
CallIds(store, kind) == {1, store.current[kind] - 1, store.current[kind]}

\* history: the kind under test, the calls made, the ids create returned in
\* the order of the calls (the seeded ones first), and for each stored
\* quotation the updates that went through since it was created.
InitStorage ==
    /\ pc = "storage"
    /\ memStorage = MemStorageNew
    /\ sqliteStorage = None
    /\ lastCall = None
    /\ \E kind \in Kinds :
          history = [kind |-> kind, calls |-> 0,
                     issued |-> [n \in 1..SeedCount(kind) |-> n],
                     updates |-> [id \in 1..SeedCount("quotation") |-> 0]]
    /\ calls = <<>> /\ quotations = <<>> /\ response = None
    /\ uploadedFiles = <<>> /\ currentFileId = 1 /\ processing = {}
    /\ file = None /\ fileData = None /\ template = None
    /\ lenientDates = TRUE
    /\ i = 0 /\ k = 0
    /\ mappedRows = <<>> /\ mappedRow = EmptyObject /\ errors = <<>>
    /\ result = None
    /\ raw = None /\ dataType = "" /\ coerced = None
    /\ col = <<>> /\ ord = 0 /\ colIndex = 0

MemCreate ==
    /\ history.calls < MaxCalls
    /\ \E insert \in InsertPayloads :
          LET r == memCreate(memStorage, history.kind, insert)
          IN  /\ memStorage' = r.store
              /\ lastCall' = [op |-> "create", id |-> 0, before |-> memStorage,
                              thrown |-> r.thrown, value |-> r.value]
              /\ history' = [history EXCEPT
                                !.calls = @ + 1,
                                !.issued = Append(@, r.value.id),
                                !.updates = IF history.kind = "quotation"
                                            THEN MapSet(@, r.value.id, 0) ELSE @]
    /\ UNCHANGED <<pipelineVars, routeVars, sqliteStorage>>

MemUpdate ==
    /\ history.calls < MaxCalls
    /\ \E id \in CallIds(memStorage, history.kind), updateData \in UpdatePayloads :
          LET r == memUpdate(memStorage, history.kind, id, updateData)
          IN  /\ memStorage' = r.store
              /\ lastCall' = [op |-> "update", id |-> id, before |-> memStorage,
                              thrown |-> r.thrown, value |-> r.value]
              /\ history' = [history EXCEPT
                                !.calls = @ + 1,
                                !.updates = IF history.kind = "quotation" /\ ~r.thrown
                                            THEN MapSet(@, id, @[id] + 1) ELSE @]
    /\ UNCHANGED <<pipelineVars, routeVars, sqliteStorage>>

MemDelete ==
    /\ history.calls < MaxCalls
    /\ \E id \in CallIds(memStorage, history.kind) :
          LET r == memDelete(memStorage, history.kind, id)
          IN  /\ memStorage' = r.store
              /\ lastCall' = [op |-> "delete", id |-> id, before |-> memStorage,
                              thrown |-> r.thrown, value |-> r.value]
              /\ history' = [history EXCEPT
                                !.calls = @ + 1,
                                !.updates = IF history.kind = "quotation"
                                            THEN MapDelete(@, id) ELSE @]
    /\ UNCHANGED <<pipelineVars, routeVars, sqliteStorage>>

NextStorage ==
    \/ MemCreate
    \/ MemUpdate
    \/ MemDelete

SpecStorage == InitStorage /\ [][NextStorage]_vars

(***************************************************************************)
(* SQLiteStorage, the quotations table: its rows by id and the sequence    *)
(* AUTOINCREMENT keeps.  A statement runs in one step; updateQuotation is  *)
(* two statements with an await between them.                              *)
(***************************************************************************)
\* A database file in which the quotations table has just been created.
SqliteNew == [rows |-> <<>>, seq |-> 0]

\* INSERT INTO quotations ... RETURNING *: version takes its DEFAULT 1.
sqliteCreateQuotation(db, insert) ==
    LET row == [id |-> db.seq + 1, data |-> insert.data, version |-> 1]
    IN  [store |-> [rows |-> MapSet(db.rows, row.id, row), seq |-> row.id],
         thrown |-> FALSE, value |-> row]

\* SELECT ... WHERE id = id: the first row of the result, undefined for none.
sqliteGetQuotation(db, id) ==
    [store |-> db, thrown |-> FALSE,
     value |-> IF id \in DOMAIN db.rows THEN db.rows[id] ELSE Undefined]

\* existing ? existing.version + 1 : 1
NewVersion(existing) ==
    IF existing = Undefined THEN 1 ELSE existing.version + 1

\* UPDATE quotations SET ...quotationData, version = newVersion WHERE id = id
\* RETURNING *: the first row of the result, undefined when no row matched.
sqliteSetQuotation(db, id, quotationData, newVersion) ==
    IF id \in DOMAIN db.rows
    THEN LET row == [Spread(db.rows[id], quotationData) EXCEPT
                        !.version = newVersion]
         IN  [store |-> [db EXCEPT !.rows = MapSet(@, id, row)],
              thrown |-> FALSE, value |-> row]
    ELSE [store |-> db, thrown |-> FALSE, value |-> Undefined]

\* updateQuotation with nothing running between its two statements.
sqliteUpdateQuotation(db, id, quotationData) ==
    sqliteSetQuotation(db, id, quotationData,
                       NewVersion(sqliteGetQuotation(db, id).value))

\* DELETE FROM quotations WHERE id = id
sqliteDeleteQuotation(db, id) ==
    [store |-> [db EXCEPT !.rows = MapDelete(@, id)],
     thrown |-> FALSE, value |-> Undefined]

(***************************************************************************)
(* Two updateQuotation calls of SQLiteStorage that may interleave at the   *)
(* await between the read and the write.                                   *)
(***************************************************************************)
IdleCall == [pc |-> "idle", id |-> 0, quotationData |-> [data |-> Undefined],
             existing |-> Undefined]

\* history: the updateQuotation calls made, and for each row the updates
\* that have returned it.
InitSqlite ==
    /\ pc = "sqlite"
    /\ sqliteStorage = SqliteNew
    /\ memStorage = None
    /\ lastCall = None
    /\ history = [calls |-> 0, updates |-> <<>>]
    /\ calls = <<IdleCall, IdleCall>>
    /\ quotations = <<>> /\ response = None
    /\ uploadedFiles = <<>> /\ currentFileId = 1 /\ processing = {}
    /\ file = None /\ fileData = None /\ template = None
    /\ lenientDates = TRUE
    /\ i = 0 /\ k = 0
    /\ mappedRows = <<>> /\ mappedRow = EmptyObject /\ errors = <<>>
    /\ result = None
    /\ raw = None /\ dataType = "" /\ coerced = None
    /\ col = <<>> /\ ord = 0 /\ colIndex = 0

sqliteRest == <<pipelineVars, quotations, response, uploadedFiles,
                currentFileId, processing, memStorage>>

SqliteCreate ==
    /\ sqliteStorage.seq < MaxQuotations
    /\ \E insert \in InsertPayloads :
          LET r == sqliteCreateQuotation(sqliteStorage, insert)
          IN  /\ sqliteStorage' = r.store
              /\ history' = [history EXCEPT !.updates = Append(@, 0)]
              /\ lastCall' = [op |-> "create", id |-> r.value.id, value |-> r.value]
    /\ UNCHANGED <<sqliteRest, calls>>

\* updateQuotation(id, quotationData) is called on a quotation that exists.
SqliteCallUpdate(c) ==
    /\ calls[c].pc = "idle"
    /\ history.calls < MaxCalls
    /\ \E id \in DOMAIN sqliteStorage.rows, quotationData \in UpdatePayloads :
          calls' = [calls EXCEPT ![c] = [IdleCall EXCEPT
                                           !.pc = "getQuotation", !.id = id,
                                           !.quotationData = quotationData]]
    /\ history' = [history EXCEPT !.calls = @ + 1]
    /\ UNCHANGED <<sqliteRest, sqliteStorage, lastCall>>

\* const existing = await this.getQuotation(id)
SqliteReadExisting(c) ==
    /\ calls[c].pc = "getQuotation"
    /\ calls' = [calls EXCEPT ![c].pc = "set",
                               ![c].existing =
                                   sqliteGetQuotation(sqliteStorage, calls[c].id).value]
    /\ UNCHANGED <<sqliteRest, sqliteStorage, lastCall, history>>

\* await db.update(quotations).set({...}).where(...).returning()
SqliteWrite(c) ==
    /\ calls[c].pc = "set"
    /\ LET r == sqliteSetQuotation(sqliteStorage, calls[c].id,
                                   calls[c].quotationData,
                                   NewVersion(calls[c].existing))
       IN  /\ sqliteStorage' = r.store
           /\ lastCall' = [op |-> "update", id |-> calls[c].id, value |-> r.value]
           /\ history' = [history EXCEPT
                             !.updates = IF r.value = Undefined THEN @
                                         ELSE [@ EXCEPT ![calls[c].id] = @ + 1]]
    /\ calls' = [calls EXCEPT ![c] = IdleCall]
    /\ UNCHANGED sqliteRest

NextSqlite ==
    \/ SqliteCreate
    \/ \E c \in Callers :
          \/ SqliteCallUpdate(c)
          \/ SqliteReadExisting(c)
          \/ SqliteWrite(c)

SpecSqlite == InitSqlite /\ [][NextSqlite]_vars

(***************************************************************************)
(* The same calls on quotations made on a MemStorage and on a              *)
(* SQLiteStorage.  The database file holds the rows MemStorage is seeded   *)
(* with, so that the two start from corresponding states.                  *)
(***************************************************************************)
Outcome(r) == [thrown |-> r.thrown, value |-> r.value]

InitInterchange ==
    /\ pc = "interchange"
    /\ memStorage = MemStorageNew
    /\ sqliteStorage = [rows |-> MemStorageNew.maps["quotation"],
                        seq |-> SeedCount("quotation")]
    /\ lastCall = None
    /\ history = [calls |-> 0]
    /\ calls = <<>>
    /\ quotations = <<>> /\ response = None
    /\ uploadedFiles = <<>> /\ currentFileId = 1 /\ processing = {}
    /\ file = None /\ fileData = None /\ template = None
    /\ lenientDates = TRUE
    /\ i = 0 /\ k = 0
    /\ mappedRows = <<>> /\ mappedRow = EmptyObject /\ errors = <<>>
    /\ result = None
    /\ raw = None /\ dataType = "" /\ coerced = None
    /\ col = <<>> /\ ord = 0 /\ colIndex = 0

BothCreate ==
    /\ history.calls < MaxCalls
    /\ \E insert \in InsertPayloads :
          LET rm == memCreate(memStorage, "quotation", insert)
              rs == sqliteCreateQuotation(sqliteStorage, insert)
          IN  /\ memStorage' = rm.store
              /\ sqliteStorage' = rs.store
              /\ lastCall' = [op |-> "create", id |-> 0,
                              mem |-> Outcome(rm), sqlite |-> Outcome(rs)]
    /\ history' = [history EXCEPT !.calls = @ + 1]
    /\ UNCHANGED <<pipelineVars, routeVars>>

BothGet ==
    /\ history.calls < MaxCalls
    /\ \E id \in CallIds(memStorage, "quotation") :
          LET rm == memGet(memStorage, "quotation", id)
              rs == sqliteGetQuotation(sqliteStorage, id)
          IN  /\ memStorage' = rm.store
              /\ sqliteStorage' = rs.store
              /\ lastCall' = [op |-> "get", id |-> id,
                              mem |-> Outcome(rm), sqlite |-> Outcome(rs)]
    /\ history' = [history EXCEPT !.calls = @ + 1]
    /\ UNCHANGED <<pipelineVars, routeVars>>

BothUpdate ==
    /\ history.calls < MaxCalls
    /\ \E id \in CallIds(memStorage, "quotation"), updateData \in UpdatePayloads :
          LET rm == memUpdate(memStorage, "quotation", id, updateData)
              rs == sqliteUpdateQuotation(sqliteStorage, id, updateData)
          IN  /\ memStorage' = rm.store
              /\ sqliteStorage' = rs.store
              /\ lastCall' = [op |-> "update", id |-> id,
                              mem |-> Outcome(rm), sqlite |-> Outcome(rs)]
    /\ history' = [history EXCEPT !.calls = @ + 1]
    /\ UNCHANGED <<pipelineVars, routeVars>>

BothDelete ==
    /\ history.calls < MaxCalls
    /\ \E id \in CallIds(memStorage, "quotation") :
          LET rm == memDelete(memStorage, "quotation", id)
              rs == sqliteDeleteQuotation(sqliteStorage, id)
          IN  /\ memStorage' = rm.store
              /\ sqliteStorage' = rs.store
              /\ lastCall' = [op |-> "delete", id |-> id,
                              mem |-> Outcome(rm), sqlite |-> Outcome(rs)]
    /\ history' = [history EXCEPT !.calls = @ + 1]
    /\ UNCHANGED <<pipelineVars, routeVars>>

NextInterchange ==
    \/ BothCreate
    \/ BothGet
    \/ BothUpdate
    \/ BothDelete

SpecInterchange == InitInterchange /\ [][NextInterchange]_vars

(***************************************************************************)
(* JSON.parse and JSON.stringify.  A JSON value is null, a boolean, a      *)
(* number, a string, an array [t |-> "array", items |-> ...] or an object  *)
(* held as its keys and its values in the order of insertion.  The texts   *)
(* of the model hold whole numbers without a sign and strings without an   *)
(* escape; a text that needs more is rejected.                             *)
(***************************************************************************)
Bool(b) == [t |-> "boolean", b |-> b]
Arr(items) == [t |-> "array", items |-> items]
Obj(keys, vals) == [t |-> "object", keys |-> keys, vals |-> vals]

JsonWhiteSpace == {" ", "\n"}

\* The first position from p on that holds no white space.
SkipWs(s, p) ==
    IF \E q \in p..Len(s) : s[q] \notin JsonWhiteSpace
    THEN CHOOSE q \in p..Len(s) :
            s[q] \notin JsonWhiteSpace /\ \A r \in p..(q - 1) : s[r] \in JsonWhiteSpace
    ELSE Len(s) + 1

StartsAt(s, p, word) ==
    p + Len(word) - 1 <= Len(s) /\ SubSeq(s, p, p + Len(word) - 1) = word

Syntax == [ok |-> FALSE, value |-> Undefined, next |-> 0]
Read(value, next) == [ok |-> TRUE, value |-> value, next |-> next]

\* A string literal that starts at p.
ParseString(s, p) ==
    IF p > Len(s) \/ s[p] # "\"" \/ ~\E q \in (p + 1)..Len(s) : s[q] = "\""
    THEN Syntax
    ELSE LET q == CHOOSE q \in (p + 1)..Len(s) :
                     s[q] = "\"" /\ \A r \in (p + 1)..(q - 1) : s[r] # "\""
             chars == SubSeq(s, p + 1, q - 1)
         IN  IF \E n \in 1..Len(chars) : chars[n] \in {"\\", "\n"} THEN Syntax
             ELSE Read(Str(chars), q + 1)

\* A number that starts at p: 0, or a run of digits that does not start with 0.
ParseNumber(s, p) ==
    LET q == IF \E r \in p..Len(s) : s[r] \notin Digits
             THEN (CHOOSE r \in p..Len(s) :
                      s[r] \notin Digits /\ \A m \in p..(r - 1) : s[m] \in Digits) - 1
             ELSE Len(s)
        run == SubSeq(s, p, q)
    IN  IF run = <<>> \/ (Len(run) > 1 /\ run[1] = "0") THEN Syntax
        ELSE IF q < Len(s) /\ s[q + 1] \in {".", "e", "E"} THEN Syntax
             ELSE Read(ToDouble(FALSE, DigitsValue(run, 10), 0), q + 1)

RECURSIVE ParseValue(_, _)
RECURSIVE ParseElements(_, _, _)
RECURSIVE ParseMembers(_, _, _, _)

\* The elements of an array from p on, items being those read so far.
ParseElements(s, p, items) ==
    LET v == ParseValue(s, p)
        q == SkipWs(s, v.next)
    IN  IF ~v.ok \/ q > Len(s) THEN Syntax
        ELSE IF s[q] = "," THEN ParseElements(s, q + 1, Append(items, v.value))
             ELSE IF s[q] = "]" THEN Read(Arr(Append(items, v.value)), q + 1)
                  ELSE Syntax

\* The members of an object from p on; a key read again replaces its value.
ParseMembers(s, p, keys, vals) ==
    LET key == ParseString(s, SkipWs(s, p))
        colon == SkipWs(s, key.next)
    IN  IF ~key.ok \/ colon > Len(s) \/ s[colon] # ":" THEN Syntax
        ELSE LET v == ParseValue(s, colon + 1)
                 q == SkipWs(s, v.next)
                 seen == \E n \in 1..Len(keys) : keys[n] = key.value.s
                 keys2 == IF seen THEN keys ELSE Append(keys, key.value.s)
                 vals2 == IF seen
                          THEN [n \in 1..Len(keys) |->
                                   IF keys[n] = key.value.s THEN v.value ELSE vals[n]]
                          ELSE Append(vals, v.value)
             IN  IF ~v.ok \/ q > Len(s) THEN Syntax
                 ELSE IF s[q] = "," THEN ParseMembers(s, q + 1, keys2, vals2)
                      ELSE IF s[q] = "}" THEN Read(Obj(keys2, vals2), q + 1)
                           ELSE Syntax

\* The value that starts at or after p.
ParseValue(s, p0) ==
    LET p == SkipWs(s, p0)
    IN  IF p > Len(s) THEN Syntax
        ELSE CASE StartsAt(s, p, <<"n", "u", "l", "l">>) -> Read(Null, p + 4)
               [] StartsAt(s, p, <<"t", "r", "u", "e">>) -> Read(Bool(TRUE), p + 4)
               [] StartsAt(s, p, <<"f", "a", "l", "s", "e">>) -> Read(Bool(FALSE), p + 5)
               [] s[p] = "\"" -> ParseString(s, p)
               [] s[p] \in Digits -> ParseNumber(s, p)
               [] s[p] = "[" ->
                    LET q == SkipWs(s, p + 1)
                    IN  IF q <= Len(s) /\ s[q] = "]" THEN Read(Arr(<<>>), q + 1)
                        ELSE ParseElements(s, p + 1, <<>>)
               [] s[p] = "{" ->
                    LET q == SkipWs(s, p + 1)
                    IN  IF q <= Len(s) /\ s[q] = "}" THEN Read(Obj(<<>>, <<>>), q + 1)
                        ELSE ParseMembers(s, p + 1, <<>>, <<>>)
               [] OTHER -> Syntax

\* JSON.parse(text): the value, or ok = FALSE for the SyntaxError thrown.
JsonParse(text) ==
    LET r == ParseValue(text, 1)
    IN  IF r.ok /\ SkipWs(text, r.next) > Len(text) THEN r ELSE Syntax

RECURSIVE NatText(_)
NatText(n) ==
    IF n < 10 THEN <<Ascii[n + 17]>> ELSE NatText(n \div 10) \o <<Ascii[(n % 10) + 17]>>

Quoted(s) == <<"\"">> \o s \o <<"\"">>

RECURSIVE Spaces(_)
Spaces(n) == IF n = 0 THEN <<>> ELSE <<" ">> \o Spaces(n - 1)

RECURSIVE Stringify(_, _, _)
\* JSON.stringify(value, null, gap) at the depth given: gap = 0 is
\* JSON.stringify(value).
Stringify(v, gap, depth) ==
    LET inner == IF gap = 0 THEN <<>> ELSE <<"\n">> \o Spaces(gap * (depth + 1))
        outer == IF gap = 0 THEN <<>> ELSE <<"\n">> \o Spaces(gap * depth)
        colon == IF gap = 0 THEN <<":">> ELSE <<":", " ">>
    IN  CASE v.t = "null" -> <<"n", "u", "l", "l">>
          [] v.t = "boolean" -> IF v.b THEN <<"t", "r", "u", "e">>
                                ELSE <<"f", "a", "l", "s", "e">>
          [] v.t = "number" -> NatText(v.mant * Pow10(v.exp))
          [] v.t = "string" -> Quoted(v.s)
          [] v.t = "array" ->
               IF v.items = <<>> THEN <<"[", "]">>
               ELSE <<"[">> \o inner
                    \o JoinWith([n \in 1..Len(v.items) |->
                                    Stringify(v.items[n], gap, depth + 1)],
                                <<",">> \o inner)
                    \o outer \o <<"]">>
          [] v.t = "object" ->
               IF v.keys = <<>> THEN <<"{", "}">>
               ELSE <<"{">> \o inner
                    \o JoinWith([n \in 1..Len(v.keys) |->
                                    Quoted(v.keys[n]) \o colon
                                    \o Stringify(v.vals[n], gap, depth + 1)],
                                <<",">> \o inner)
                    \o outer \o <<"}">>

\* value[key] of a parsed value: own properties of objects only.
Property(v, key) ==
    IF v.t = "object" /\ \E n \in 1..Len(v.keys) : v.keys[n] = key
    THEN v.vals[CHOOSE n \in 1..Len(v.keys) : v.keys[n] = key]
    ELSE Undefined

(***************************************************************************)
(* The template routes of template-routes.ts on the templates table (held  *)
(* in sqliteStorage as rows and sequence), and the export and import of a  *)
(* template by the client.                                                 *)
(***************************************************************************)
KeyName == <<"n", "a", "m", "e">>
KeyMappingData == <<"m", "a", "p", "p", "i", "n", "g", "D", "a", "t", "a">>

Answer(db, status, value) == [store |-> db, status |-> status, value |-> value]

\* typeof mappingData === 'string' ? mappingData : JSON.stringify(mappingData)
SerializedMapping(mappingData) ==
    IF mappingData.t = "string" THEN mappingData.s ELSE Stringify(mappingData, 0, 0)

\* Mutant of postTemplate: a string is stored without JSON.parse being tried.
postTemplate_Unparsed(db, body) ==
    IF ~Truthy(body.name) \/ ~Truthy(body.mappingData) THEN Answer(db, 400, Undefined)
    ELSE LET row == [id |-> db.seq + 1, name |-> body.name.s,
                     mappingData |-> SerializedMapping(body.mappingData)]
         IN  Answer([rows |-> MapSet(db.rows, row.id, row), seq |-> row.id], 201, row)

\* router.post('/')
postTemplate(db, body) ==
    IF ~Truthy(body.name) \/ ~Truthy(body.mappingData) THEN Answer(db, 400, Undefined)
    ELSE IF body.mappingData.t = "string" /\ ~JsonParse(body.mappingData.s).ok
         THEN Answer(db, 400, Undefined)
         ELSE LET row == [id |-> db.seq + 1, name |-> body.name.s,
                          mappingData |-> SerializedMapping(body.mappingData)]
              IN  Answer([rows |-> MapSet(db.rows, row.id, row), seq |-> row.id],
                         201, row)

\* The rows WHERE id = templateId matches, templateId being a number.
MatchingId(db, templateId) ==
    {id \in DOMAIN db.rows :
        templateId.kind = "fin" /\ ~templateId.neg /\ templateId.exp >= 0
        /\ id = templateId.mant * Pow10(templateId.exp)}

\* router.put('/:id')
putTemplate(db, idParam, body) ==
    LET templateId == ToNumber(Str(idParam))
    IN  IF IsNaN(templateId) THEN Answer(db, 400, Undefined)
        ELSE IF ~Truthy(body.name) \/ ~Truthy(body.mappingData)
        THEN Answer(db, 400, Undefined)
        ELSE IF body.mappingData.t = "string" /\ ~JsonParse(body.mappingData.s).ok
        THEN Answer(db, 400, Undefined)
        ELSE IF MatchingId(db, templateId) = {} THEN Answer(db, 404, Undefined)
        ELSE LET id == CHOOSE id \in MatchingId(db, templateId) : TRUE
                 row == [id |-> id, name |-> body.name.s,
                         mappingData |-> SerializedMapping(body.mappingData)]
             IN  Answer([db EXCEPT !.rows = MapSet(@, id, row)], 200, row)

\* router.delete('/:id')
deleteTemplate(db, idParam) ==
    LET templateId == ToNumber(Str(idParam))
    IN  IF IsNaN(templateId) THEN Answer(db, 400, Undefined)
        ELSE IF MatchingId(db, templateId) = {} THEN Answer(db, 404, Undefined)
        ELSE LET id == CHOOSE id \in MatchingId(db, templateId) : TRUE
             IN  Answer([db EXCEPT !.rows = MapDelete(@, id)], 200, Undefined)

\* handleExport up to the content handed to save_file_content; ok = FALSE
\* when JSON.parse threw and setError was called instead.
handleExport(tpl) ==
    LET parsed == JsonParse(tpl.mappingData)
    IN  IF ~parsed.ok THEN [ok |-> FALSE, content |-> <<>>]
        ELSE [ok |-> TRUE,
              content |-> Stringify(Obj(<<KeyName, KeyMappingData>>,
                                        <<Str(tpl.name), parsed.value>>), 2, 0)]

\* importTemplate(templateData), the POST route included: express.json()
\* parses the body fetch sent.  status 0 stands for the Error thrown before
\* any request was made.
importTemplate(db, templateData) ==
    LET parsedData == JsonParse(templateData)
        name == Property(parsedData.value, KeyName)
        mappingData == Property(parsedData.value, KeyMappingData)
    IN  IF ~parsedData.ok \/ parsedData.value.t = "null" THEN Answer(db, 0, Undefined)
        ELSE IF ~Truthy(name) \/ ~Truthy(mappingData) THEN Answer(db, 0, Undefined)
        ELSE LET sent == Stringify(Obj(<<KeyName, KeyMappingData>>,
                                       <<name, Str(SerializedMapping(mappingData))>>),
                                   0, 0)
                 received == JsonParse(sent).value
             IN  postTemplate(db, [name |-> Property(received, KeyName),
                                   mappingData |-> Property(received, KeyMappingData)])

\* What a request body gives for name and for mappingData.
TextT == <<"t">>
BodyNames == {Undefined, Str(<<>>), Str(TextT)}
BodyMappings ==
    {Undefined, Str(<<"{">>), Str(<<"n", "u", "l", "l">>), Str(<<"{", "}">>),
     Obj(<<ColA>>, <<Fin(FALSE, 1, 0)>>), Fin(FALSE, 0, 0)}
IdParams == {<<"1">>, <<"2">>, <<"x">>}

InitTemplates ==
    /\ pc = "templates"
    /\ sqliteStorage = SqliteNew
    /\ lastCall = None
    /\ history = None
    /\ response = None
    /\ calls = <<>> /\ quotations = <<>>
    /\ uploadedFiles = <<>> /\ currentFileId = 1 /\ processing = {}
    /\ memStorage = None
    /\ file = None /\ fileData = None /\ template = None
    /\ lenientDates = TRUE
    /\ i = 0 /\ k = 0
    /\ mappedRows = <<>> /\ mappedRow = EmptyObject /\ errors = <<>>
    /\ result = None
    /\ raw = None /\ dataType = "" /\ coerced = None
    /\ col = <<>> /\ ord = 0 /\ colIndex = 0

templatesRest == <<pipelineVars, calls, quotations, uploadedFiles, currentFileId,
                   processing, memStorage, history, response>>

PostTemplate ==
    /\ sqliteStorage.seq < MaxTemplates
    /\ \E name \in BodyNames, mappingData \in BodyMappings :
          LET body == [name |-> name, mappingData |-> mappingData]
              r == postTemplate(sqliteStorage, body)
          IN  /\ sqliteStorage' = r.store
              /\ lastCall' = [op |-> "post", idParam |-> <<>>, body |-> body,
                              before |-> sqliteStorage, status |-> r.status]
    /\ UNCHANGED templatesRest

PutTemplate ==
    /\ \E idParam \in IdParams, name \in BodyNames, mappingData \in BodyMappings :
          LET body == [name |-> name, mappingData |-> mappingData]
              r == putTemplate(sqliteStorage, idParam, body)
          IN  /\ sqliteStorage' = r.store
              /\ lastCall' = [op |-> "put", idParam |-> idParam, body |-> body,
                              before |-> sqliteStorage, status |-> r.status]
    /\ UNCHANGED templatesRest

DeleteTemplate ==
    /\ \E idParam \in IdParams :
          LET r == deleteTemplate(sqliteStorage, idParam)
          IN  /\ sqliteStorage' = r.store
              /\ lastCall' = [op |-> "delete", idParam |-> idParam,
                              body |-> [name |-> Undefined, mappingData |-> Undefined],
                              before |-> sqliteStorage, status |-> r.status]
    /\ UNCHANGED templatesRest

NextTemplates ==
    \/ PostTemplate
    \/ PutTemplate
    \/ DeleteTemplate

SpecTemplates == InitTemplates /\ [][NextTemplates]_vars

(***************************************************************************)
(* A template is created through the POST route, exported by handleExport  *)
(* and the exported content imported by importTemplate.  history holds the *)
(* step reached and the name and mappingData text the template was made    *)
(* of, response the file that was written.                                 *)
(***************************************************************************)
\* The JSON values the mappingData texts are written from.
MappingValues ==
    <<Null, Bool(TRUE), Bool(FALSE), Fin(FALSE, 0, 0), Fin(FALSE, 1, 0),
      Str(<<>>), Str(TextAb), Str(<<"5">>)>>

\* Each value, each in an array and each in an object, and the two empty ones.
MappingTexts ==
    {Stringify(MappingValues[n], 0, 0) : n \in DOMAIN MappingValues}
    \cup {Stringify(Arr(<<MappingValues[n]>>), 0, 0) : n \in DOMAIN MappingValues}
    \cup {Stringify(Obj(<<ColA>>, <<MappingValues[n]>>), 0, 0) : n \in DOMAIN MappingValues}
    \cup {<<"[", "]">>, <<"{", "}">>, <<"{">>}

TemplateNames == {TextT, TextAb}

InitRoundTrip ==
    /\ pc = "roundtrip"
    /\ sqliteStorage = SqliteNew
    /\ lastCall = None
    /\ response = None
    /\ \E name \in TemplateNames, text \in MappingTexts :
          history = [step |-> "new", name |-> name, mappingData |-> text]
    /\ calls = <<>> /\ quotations = <<>>
    /\ uploadedFiles = <<>> /\ currentFileId = 1 /\ processing = {}
    /\ memStorage = None
    /\ file = None /\ fileData = None /\ template = None
    /\ lenientDates = TRUE
    /\ i = 0 /\ k = 0
    /\ mappedRows = <<>> /\ mappedRow = EmptyObject /\ errors = <<>>
    /\ result = None
    /\ raw = None /\ dataType = "" /\ coerced = None
    /\ col = <<>> /\ ord = 0 /\ colIndex = 0

roundTripRest == <<pipelineVars, calls, quotations, uploadedFiles, currentFileId,
                   processing, memStorage>>

\* The template is created: POST /api/templates with the name and the text.
RoundTripCreate ==
    /\ history.step = "new"
    /\ LET r == postTemplate(sqliteStorage, [name |-> Str(history.name),
                                             mappingData |-> Str(history.mappingData)])
       IN  /\ sqliteStorage' = r.store
           /\ history' = [history EXCEPT !.step = IF r.status = 201 THEN "stored"
                                                  ELSE "refused"]
    /\ UNCHANGED <<roundTripRest, lastCall, response>>

\* handleExport(template) on the template created; the user may close the
\* save dialog, and nothing is written then.
RoundTripExport ==
    /\ history.step = "stored"
    /\ \E saved \in BOOLEAN :
          LET r == handleExport(sqliteStorage.rows[1])
          IN  /\ response' = IF r.ok /\ saved THEN [kind |-> "file", content |-> r.content]
                              ELSE None
              /\ history' = [history EXCEPT !.step = IF r.ok /\ saved THEN "exported"
                                                     ELSE "unsaved"]
    /\ UNCHANGED <<roundTripRest, lastCall, sqliteStorage>>

\* importTemplate(content of the file written).
RoundTripImport ==
    /\ history.step = "exported"
    /\ LET r == importTemplate(sqliteStorage, response.content)
       IN  /\ sqliteStorage' = r.store
           /\ lastCall' = [op |-> "import", status |-> r.status, value |-> r.value]
    /\ history' = [history EXCEPT !.step = "imported"]
    /\ UNCHANGED <<roundTripRest, response>>

NextRoundTrip ==
    \/ RoundTripCreate
    \/ RoundTripExport
    \/ RoundTripImport

SpecRoundTrip == InitRoundTrip /\ [][NextRoundTrip]_vars

(***************************************************************************)
(* POST /data-analysis of analytics-routes.ts.  quotations holds the rows  *)
(* of the quotes table the query returned, each with its data text.  The   *)
(* numbers of the model are whole and not negative, so a sum is a natural  *)
(* number and an average is held as the sum over the count.                *)
(***************************************************************************)
RECURSIVE Split(_, _)
\* s.split(sep) for a separator of one character
Split(s, sep) ==
    LET n == IndexOf(s, {sep})
    IN  IF n = 0 THEN <<s>>
        ELSE <<SubSeq(s, 1, n - 1)>> \o Split(From(s, n + 1), sep)

RECURSIVE FollowPath(_, _)
\* for (const path of fieldPath) { value = value?.[path]; if (value ==
\* null) break; }
FollowPath(value, fieldPath) ==
    IF fieldPath = <<>> \/ IsNullish(value) THEN value
    ELSE FollowPath(Property(value, Head(fieldPath)), Tail(fieldPath))

\* One pass of the forEach: what the quote adds to values.  JSON.parse may
\* throw, and the catch block skips the quote.
QuoteValues(data, field) ==
    LET parsed == JsonParse(data)
        value == FollowPath(parsed.value, Split(field, "."))
    IN  IF ~parsed.ok THEN <<>>
        ELSE IF value.t = "number" \/ ~IsNaN(ToNumber(value))
             THEN <<ToNumber(value)>>
             ELSE <<>>

RECURSIVE CollectValues(_, _)
CollectValues(quotesData, field) ==
    IF quotesData = <<>> THEN <<>>
    ELSE QuoteValues(Head(quotesData).data, field)
         \o CollectValues(Tail(quotesData), field)

NatOf(num) == num.mant * Pow10(num.exp)

RECURSIVE SumOf(_)
\* values.reduce((sum, value) => sum + value, 0)
SumOf(values) == IF values = <<>> THEN 0 ELSE NatOf(Head(values)) + SumOf(Tail(values))

MinOf(values) ==
    CHOOSE x \in {NatOf(values[n]) : n \in DOMAIN values} :
        \A n \in DOMAIN values : x <= NatOf(values[n])
MaxOf(values) ==
    CHOOSE x \in {NatOf(values[n]) : n \in DOMAIN values} :
        \A n \in DOMAIN values : x >= NatOf(values[n])

\* A result: null, or the number num / den.
ResultNull == [null |-> TRUE, num |-> 0, den |-> 1]
ResultNumber(num, den) == [null |-> FALSE, num |-> num, den |-> den]

Analysed(r, size) == [status |-> 200, result |-> r, sampleSize |-> size]

\* switch (operation) on the values collected: 400 for an operation the
\* route does not know.
Operate(values, operation) ==
    CASE operation = "sum" -> Analysed(ResultNumber(SumOf(values), 1), Len(values))
      [] operation = "average" ->
           Analysed(IF Len(values) > 0 THEN ResultNumber(SumOf(values), Len(values))
                    ELSE ResultNumber(0, 1), Len(values))
      [] operation = "min" ->
           Analysed(IF Len(values) > 0 THEN ResultNumber(MinOf(values), 1)
                    ELSE ResultNull, Len(values))
      [] operation = "max" ->
           Analysed(IF Len(values) > 0 THEN ResultNumber(MaxOf(values), 1)
                    ELSE ResultNull, Len(values))
      [] operation = "count" -> Analysed(ResultNumber(Len(values), 1), Len(values))
      [] OTHER -> [status |-> 400]

\* router.post('/data-analysis') on the rows the query returned.
dataAnalysis(quotesData, field, operation) ==
    IF field = <<>> \/ operation = "" THEN [status |-> 400]
    ELSE Operate(CollectValues(quotesData, field), operation)

\* The data texts of the quotes: field a holding 1, null, a text that is no
\* number, a text that is one, an object with b; no field a; no JSON.
QuoteDataTexts ==
    {Stringify(Obj(<<ColA>>, <<Fin(FALSE, 1, 0)>>), 0, 0),
     Stringify(Obj(<<ColA>>, <<Null>>), 0, 0),
     Stringify(Obj(<<ColA>>, <<Str(<<"x">>)>>), 0, 0),
     Stringify(Obj(<<ColA>>, <<Str(<<"2">>)>>), 0, 0),
     Stringify(Obj(<<ColA>>, <<Obj(<<ColB>>, <<Fin(FALSE, 3, 0)>>)>>), 0, 0),
     <<"{", "}">>,
     <<"x">>}

AnalysisFields == {ColA, <<"A", ".", "B">>, <<>>}
Operations == {"sum", "average", "min", "max", "count", "median"}

InitAnalysis ==
    /\ pc = "analysis"
    /\ quotations \in {[n \in 1..Len(q) |-> [data |-> q[n]]] :
                          q \in SeqsUpTo(QuoteDataTexts, MaxQuotations)}
    /\ \E field \in AnalysisFields, operation \in Operations :
          lastCall = [field |-> field, operation |-> operation]
    /\ response = None
    /\ memStorage = None /\ sqliteStorage = None /\ history = None
    /\ calls = <<>>
    /\ uploadedFiles = <<>> /\ currentFileId = 1 /\ processing = {}
    /\ file = None /\ fileData = None /\ template = None
    /\ lenientDates = TRUE
    /\ i = 0 /\ k = 0
    /\ mappedRows = <<>> /\ mappedRow = EmptyObject /\ errors = <<>>
    /\ result = None
    /\ raw = None /\ dataType = "" /\ coerced = None
    /\ col = <<>> /\ ord = 0 /\ colIndex = 0

DataAnalysis ==
    /\ response = None
    /\ response' = dataAnalysis(quotations, lastCall.field, lastCall.operation)
    /\ UNCHANGED <<pipelineVars, calls, quotations, uploadedFiles, currentFileId,
                   processing, storeVars>>

NextAnalysis == DataAnalysis

SpecAnalysis == InitAnalysis /\ [][NextAnalysis]_vars

(***************************************************************************)
(* Properties.                                                             *)
(***************************************************************************)
FieldNames(tpl) == {tpl.columns[n].name : n \in 1..Len(tpl.columns)}

\* The call runs (or ran) the tabular path.
OnTabularPath == pc \in {"tabular", "done"} /\ ~UsesPdfPath(fileData, template)

\* The call runs (or ran) the free-text path.
OnPdfPath == pc \in {"pdf", "done", "thrown"} /\ UsesPdfPath(fileData, template)

\* The entries a step appended to errors.
AddedErrors == SubSeq(errors', Len(errors) + 1, Len(errors'))

\* C1: on the tabular path the source row at index i >= skipRows adds a record
\* to mappedRows if and only if it added no entry to rowErrors; the record of
\* an error-free row holds every field (it is never partial), every entry a
\* row adds carries that row's number i + 1, and the result returns exactly
\* the records and the entries collected.
C1_RowStep ==
    /\ (pc = "tabular" /\ pc' = "tabular") =>
          /\ i >= SkipRowsOf(template) /\ i' = i + 1
          /\ SubSeq(errors', 1, Len(errors)) = errors
          /\ \A n \in 1..Len(AddedErrors) : AddedErrors[n].row = i + 1
          /\ IF AddedErrors = <<>>
             THEN /\ Len(mappedRows') = Len(mappedRows) + 1
                  /\ SubSeq(mappedRows', 1, Len(mappedRows)) = mappedRows
                  /\ DOMAIN mappedRows'[Len(mappedRows')] = FieldNames(template)
             ELSE mappedRows' = mappedRows
    /\ (pc = "tabular" /\ pc' = "done") =>
          /\ result'.rows = mappedRows /\ result'.errors = errors
          /\ result'.mappedRows = Len(mappedRows)
    /\ (pc = "parsed" /\ pc' = "tabular") => mappedRows' = <<>> /\ errors' = <<>>

C1_MappedIffNoErrors == [][C1_RowStep]_vars

\* C1 witness: a tabular call returned with one row mapped and another excluded.
C1_Witness ==
    /\ pc = "done" /\ OnTabularPath
    /\ result.mappedRows >= 1 /\ result.errorRows >= 1

\* C2: on the tabular path totals.mappedRows + totals.errorRows equals
\* totals.totalRows.
C2_TotalsAddUp ==
    (pc = "done" /\ OnTabularPath /\ fileData.metadata.type \in {"excel", "csv"}) =>
        result.mappedRows + result.errorRows = result.totalRows

\* C3: a call whose document kind differs from the template's kind fails at
\* once (IncompatibleTemplate): it runs no mapping path and returns no result.
C3_MismatchRejected ==
    (pc \in {"tabular", "pdf", "done", "thrown"}
       /\ template.fileType # fileData.metadata.type) => pc = "thrown"

\* Scenario A: a sheet of one header row and N data rows, each with text in
\* cell A, mapped by one required string column at "A" with the given skipRows.
HeaderAndFilledRows ==
    /\ file.kind = "excel"
    /\ Len(file.content) >= 1
    /\ \A r \in 2..Len(file.content) :
          /\ file.content[r] # <<>>
          /\ file.content[r][1].t = "string" /\ file.content[r][1].s # <<>>

OneRequiredStringAtA(skip) ==
    /\ template.fileType = "excel"
    /\ template.skipRows = skip
    /\ Len(template.columns) = 1
    /\ template.columns[1].required
    /\ template.columns[1].dataType = "string"
    /\ template.columns[1].sourceColumn = ColA

DataRowCount == Len(file.content) - 1

Naming(es, name) ==
    {e \in 1..Len(es) : Contains(es[e].message, <<Quote>> \o name \o <<Quote>>)}

\* The source rows from skipRows on whose value for the mapping is null or
\* undefined.
RowsMissing(mapping) ==
    {j \in SkipRowsOf(template)..(Len(fileData.rows) - 1) :
        IsNullish(ResolveValue(fileData.metadata.type, fileData.rows[j + 1], mapping))}

\* C5: on the tabular path a required field whose resolved value is null or
\* undefined adds exactly one entry for that row naming that field, and the
\* row adds no record; the other rows are still mapped: with one required
\* string column the result holds one record per row that has a value and one
\* entry, carrying the row's number, per row that has none.
C5_Step ==
    /\ (pc = "tabular" /\ pc' = "tabular") =>
          \A n \in 1..Len(template.columns) :
             LET m == template.columns[n]
                 v == ResolveValue(fileData.metadata.type, fileData.rows[i + 1], m)
             IN  (m.required /\ IsNullish(v)) =>
                    /\ Cardinality(Naming(AddedErrors, m.name)) = 1
                    /\ \E e \in 1..Len(AddedErrors) :
                          AddedErrors[e] = [row |-> i + 1,
                                            message |-> RequiredMessage(m.name)]
                    /\ mappedRows' = mappedRows
    /\ (pc = "tabular" /\ pc' = "done" /\ Len(template.columns) = 1
          /\ template.columns[1].required /\ template.columns[1].dataType = "string"
          /\ Len(fileData.rows) >= SkipRowsOf(template)) =>
          LET missing == RowsMissing(template.columns[1])
          IN  /\ result'.mappedRows
                   = Len(fileData.rows) - SkipRowsOf(template) - Cardinality(missing)
              /\ Len(result'.errors) = Cardinality(missing)
              /\ {result'.errors[e].row : e \in 1..Len(result'.errors)}
                   = {j + 1 : j \in missing}

C5_RequiredMissing == [][C5_Step]_vars

\* C5 witness (Scenario B): two data rows mapped by one required string column,
\* the second without a value: one record, one entry for row 2.
C5_Witness ==
    /\ pc = "done" /\ OnTabularPath
    /\ Len(fileData.rows) = 2 /\ SkipRowsOf(template) = 0
    /\ Len(template.columns) = 1 /\ template.columns[1].required
    /\ RowsMissing(template.columns[1]) = {1}
    /\ result.mappedRows = 1 /\ Len(result.errors) = 1 /\ result.errors[1].row = 2

\* C6: a failing type conversion of a field is recorded in rowErrors on both
\* paths; applyTemplate never throws because of it.
C6_NeverThrows == pc # "thrown"

\* The target type as the template spells it.
TypeName(type) ==
    CASE type = "number" -> <<"n", "u", "m", "b", "e", "r">>
      [] type = "date" -> <<"d", "a", "t", "e">>
      [] OTHER -> <<"s", "t", "r", "i", "n", "g">>

\* The target type as the messages spell it, in Korean.
TypeWord(type) == IF type = "number" THEN <<WordNumber>> ELSE <<WordDate>>

\* Every failed conversion so far has its message: on the tabular path an entry
\* of the row that names the field, holds the raw value and names the type by
\* TypeText; on the free-text path the Error thrown, which holds the raw value
\* and names the type.
ConversionMessages(TypeText(_)) ==
    /\ OnTabularPath =>
          \A j \in SkipRowsOf(template)..(i - 1), n \in 1..Len(template.columns) :
             LET m == template.columns[n]
                 v == ResolveValue(fileData.metadata.type, fileData.rows[j + 1], m)
             IN  ~convertDataType(v, m.dataType).ok =>
                    \E e \in 1..Len(errors) :
                       /\ errors[e].row = j + 1
                       /\ Contains(errors[e].message, <<Quote>> \o m.name \o <<Quote>>)
                       /\ Contains(errors[e].message, <<Quote>> \o ToStr(v) \o <<Quote>>)
                       /\ Contains(errors[e].message, TypeText(m.dataType))
    /\ (OnPdfPath /\ pc = "thrown") =>
          LET m == template.columns[k]
              v == RegexMatch(PatternOf(template, m.name).s, PdfContent(fileData)).g1
          IN  /\ Contains(result.message, <<Quote>> \o ToStr(v) \o <<Quote>>)
              /\ Contains(result.message, TypeText(m.dataType))

\* C7 as stated: the message of every failed conversion holds the raw value
\* and the name of the target type ("number", "date"), and the row error names
\* the field.
C7_MessageNamesType == ConversionMessages(TypeName)

\* C7 amended: the message holds the raw value and the Korean word for the
\* target type (sutja for number, naljja for date), not the type's identifier;
\* the row error names the field.
C7_MessageNamesTypeInKorean == ConversionMessages(TypeWord)

\* C7 witness (Scenario C): a delimited row whose number field holds "ab" was
\* excluded with a conversion entry.
C7_Witness ==
    /\ pc = "done" /\ OnTabularPath /\ fileData.metadata.type = "csv"
    /\ result.mappedRows = 0
    /\ \E e \in 1..Len(result.errors), n \in 1..Len(template.columns) :
          /\ template.columns[n].dataType = "number"
          /\ Contains(result.errors[e].message, <<TxtConvertError, Quote>> \o TextAb)

\* A base-10 decimal: an optional sign, then digits with at most one decimal
\* point among them.
PlainDecimal(t) ==
    LET u == IF t # <<>> /\ t[1] \in {"+", "-"} THEN Tail(t) ELSE t
        d == IndexOf(u, {"."})
        ip == IF d = 0 THEN u ELSE SubSeq(u, 1, d - 1)
        fp == IF d = 0 THEN <<>> ELSE From(u, d + 1)
    IN  AllIn(ip, Digits) /\ AllIn(fp, Digits) /\ Len(ip) + Len(fp) > 0

\* C8: convertDataType(raw, number) of a string succeeds exactly when the
\* trimmed string is a base-10 decimal, and then with a finite number; every
\* other string (not numeric, empty, blank, infinite) fails.
C8_NumberOnlyFiniteDecimal ==
    (pc = "coerced" /\ dataType = "number" /\ raw.t = "string") =>
        /\ coerced.ok <=> PlainDecimal(Trim(raw.s))
        /\ coerced.ok => coerced.val.kind = "fin"

\* C9: excelColToIndex numbers the column letters in Excel column order from 0:
\* the index of a column is its position in that order (A is 0, Z is 25, AA is
\* 26), so the resolution is a strictly increasing bijection onto 0, 1, 2, ...
\* and no index is negative.
C9_ColumnIndexIsPosition ==
    pc = "col" =>
        /\ colIndex = ord
        /\ colIndex >= 0
        /\ (col = <<"Z">> => colIndex = 25)
        /\ (col = <<"A", "A">> => colIndex = 26)

\* C9 witness: the walk reached AA and resolved it to 26.
C9_Witness == pc = "col" /\ col = <<"A", "A">> /\ colIndex = 26

\* The outcome C10 gives for the column n of a free-text template: a matched,
\* non-empty group 1 is converted and stored under the field name without an
\* entry; otherwise the field is left out, with one entry when it is required
\* and none when it is optional.
PdfFieldOutcome(n) ==
    LET m == template.columns[n]
        pattern == PatternOf(template, m.name)
        match == IF Truthy(pattern) THEN RegexMatch(pattern.s, PdfContent(fileData))
                 ELSE [found |-> FALSE, g1 |-> Undefined]
        conv == convertDataType(match.g1, m.dataType)
    IN  IF match.found /\ Truthy(match.g1)
        THEN /\ conv.ok
             /\ m.name \in DOMAIN mappedRow
             /\ mappedRow[m.name] = conv.val
             /\ Naming(errors, m.name) = {}
        ELSE /\ m.name \notin DOMAIN mappedRow
             /\ Cardinality(Naming(errors, m.name)) = IF m.required THEN 1 ELSE 0

\* C10: on the free-text path every field mapping ends in one of the five
\* outcomes (pattern absent or without a match: one entry if required, none if
\* optional, field left out; a non-empty group 1: the converted value stored).
C10_FiveOutcomes ==
    OnPdfPath =>
        /\ pc # "thrown"
        /\ \A n \in 1..(k - 1) : PdfFieldOutcome(n)

\* C11: on the free-text path the result has totalRows 1, every entry of its
\* errors carries row 1, and its rows hold exactly one record when there is no
\* entry and none when there is one entry or more.
C11_OneSyntheticRow ==
    (OnPdfPath /\ pc = "done") =>
        /\ result.totalRows = 1
        /\ \A e \in 1..Len(result.errors) : result.errors[e].row = 1
        /\ result.mappedRows = Len(result.rows)
        /\ IF Len(result.errors) = 0
           THEN Len(result.rows) = 1
           ELSE result.rows = <<>>

\* C11 witness: a free-text call returned two entries, both of row 1, and no
\* record.
C11_Witness ==
    /\ OnPdfPath /\ pc = "done"
    /\ Len(result.errors) = 2
    /\ result.rows = <<>> /\ result.totalRows = 1

\* C12: on both paths the headers of the result are the names of the
\* template's columns, one per column and in the columns' order, whichever
\* rows or fields failed.
C12_HeadersAreFieldNames ==
    pc = "done" =>
        /\ Len(result.headers) = Len(template.columns)
        /\ \A n \in 1..Len(template.columns) :
              result.headers[n] = template.columns[n].name

\* C12 witness: a call over two columns returned with entries in errors.
C12_Witness ==
    /\ pc = "done" /\ Len(template.columns) = 2
    /\ Len(result.errors) >= 1
    /\ result.headers = <<FieldName(1), FieldName(2)>>

\* The column an entry's message names: every message opens with its kind,
\* a quote and the field name.
ErrorField(tpl, message) ==
    CHOOSE n \in 1..Len(tpl.columns) :
        SubSeq(message, 3, 2 + Len(tpl.columns[n].name)) = tpl.columns[n].name

\* entries is in encounter order: rows never decrease, and within a row the
\* fields never go back.
InEncounterOrder(tpl, entries) ==
    \A a, b \in 1..Len(entries) :
        a < b =>
            \/ entries[a].row < entries[b].row
            \/ /\ entries[a].row = entries[b].row
               /\ ErrorField(tpl, entries[a].message)
                     <= ErrorField(tpl, entries[b].message)

\* C13: rowErrors is in encounter order, while it is collected and when it is
\* returned: the entry of the lower source row comes first, and the entries
\* of one row follow the order of their fields in the template.
C13_EncounterOrder ==
    /\ pc \in {"tabular", "pdf"} => InEncounterOrder(template, errors)
    /\ pc = "done" => InEncounterOrder(template, result.errors)

\* C13 witness: a tabular call returned two entries of row 1, for the first
\* and the second field, and then an entry of row 2.
C13_Witness ==
    /\ pc = "done" /\ OnTabularPath
    /\ Len(result.errors) >= 3
    /\ result.errors[1].row = 1 /\ result.errors[2].row = 1
    /\ result.errors[3].row = 2
    /\ ErrorField(template, result.errors[1].message) = 1
    /\ ErrorField(template, result.errors[2].message) = 2

\* A step of applyTemplate leaves the template and the parsed document as the
\* call received them.
C14_Step ==
    pc \in {"tabular", "pdf"} => template' = template /\ fileData' = fileData

\* C14: applyTemplate, on both paths and whether it returns or throws, leaves
\* the template (fileType, skipRows, columns, pdfSettings) and the parsed
\* document (headers, rows, metadata) equal to what they were at the call.
C14_InputsUnchanged == [][C14_Step]_vars

\* C14 witness: a call that mapped rows and collected entries has returned,
\* and the document is still what parseFile made of the file.
C14_Witness ==
    /\ pc = "done" /\ OnTabularPath
    /\ result.mappedRows >= 1 /\ Len(result.errors) >= 1
    /\ fileData = parseFile(file).data

\* The kind of document a declared file type names.
DeclaredKind(fileType) ==
    CASE fileType \in {TypeXlsx, TypeMsExcel} -> "spreadsheet"
      [] fileType = TypeCsv -> "delimited-text"
      [] fileType = TypePdf -> "free-text"
      [] OTHER -> "none"

\* The Error parseFile threw reports an unsupported format.
IsUnsupportedFormat == pc = "unparsed" /\ Contains(result.message, <<TxtUnsupported>>)

\* The Error parseFile threw is the wrapper of an underlying cause.
IsParseFailure == pc = "unparsed" /\ result.message[1] = TxtParseError

\* C15: parseFile fails with UnsupportedFormat, and calls no format parser,
\* exactly when the declared kind is none of spreadsheet, delimited-text and
\* free-text; it fails with ParseFailure around the cause when the bytes
\* cannot be read as the claimed format; a caller can tell the two failures
\* apart; and a delimited-text or free-text kind never reaches parseExcel.
C15_ParseFailures ==
    pc \in {"parsed", "unparsed"} =>
        LET kind == DeclaredKind(file.fileType)
        IN  /\ (kind = "none") <=> IsUnsupportedFormat
            /\ kind = "none" => parseFile(file).invoked = "none"
            /\ (kind # "none" /\ file.exists /\ file.kind = "corrupt") =>
                   IsParseFailure /\ Contains(result.message, file.content)
            /\ ~(IsUnsupportedFormat /\ IsParseFailure)
            /\ kind \in {"delimited-text", "free-text"} =>
                   parseFile(file).invoked # "excel"

\* A spreadsheet has been parsed.
SheetParsed == pc = "parsed" /\ fileData.metadata.type = "excel"

C17_RecordValueKept ==
    (OnTabularPath /\ fileData.metadata.type = "csv") =>
        \A j \in SkipRowsOf(template)..(i - 1), n \in 1..Len(template.columns) :
            LET m == template.columns[n]
                record == fileData.rows[j + 1]
                value == ResolveValue(fileData.metadata.type, record, m)
            IN  /\ m.sourceColumn \in DOMAIN record => value = record[m.sourceColumn]
                /\ m.sourceColumn \notin DOMAIN record => IsNullish(value)
                /\ (\E e \in 1..Len(errors) :
                        /\ errors[e].row = j + 1
                        /\ errors[e].message = RequiredMessage(m.name))
                      => m.sourceColumn \notin DOMAIN record

\* An export request has just been answered.
Exported == response' # response

\* C18: a delimited export of any number of records, zero included, answers
\* with a file of exactly one header line followed by one line per record;
\* zero records give the header line alone, not an empty file or an error.
C18_ExportStep ==
    Exported =>
        /\ response'.status = 200
        /\ Len(Lines(response'.download)) = 1 + Len(ExportSelection(response'.ids))
        /\ Lines(response'.download)[1] = JoinWith(QuotationKeys, <<",">>)

C18_HeaderLineAlways == [][C18_ExportStep]_vars

\* C19: two applyTemplate calls, each on its own document and template,
\* share no state: however their steps interleave, a call that has ended
\* holds the result (or the Error) of that call run alone on its arguments,
\* and its arguments are as they were.
C19_ResultAsAlone ==
    \A c \in DOMAIN calls :
        calls[c].pc \in {"done", "thrown"} =>
            calls[c].result = applyTemplate(calls[c].fileData, calls[c].template)

\* C19 witness: the second call ran to its end while the first was inside its
\* row loop with an entry collected, and the two work on different documents.
C19_Witness ==
    /\ pc = "concurrent"
    /\ calls[1].pc = "tabular" /\ calls[1].i >= 1 /\ Len(calls[1].errors) >= 1
    /\ calls[2].pc = "done" /\ calls[2].result.mappedRows >= 1
    /\ calls[1].fileData.metadata.type # calls[2].fileData.metadata.type

FileStatuses == {"pending", "processing", "completed", "failed"}

\* C20: after any sequence of uploads, apply-template requests and updates of
\* uploaded files through the routes, the status of every stored uploaded
\* file is one of "pending", "processing", "completed" and "failed", and a
\* file just uploaded is "pending".
C20_Step ==
    /\ \A id \in DOMAIN uploadedFiles' : uploadedFiles'[id].status \in FileStatuses
    /\ Len(uploadedFiles') > Len(uploadedFiles) =>
          uploadedFiles'[Len(uploadedFiles')].status = "pending"

C20_StatusIsOneOfFour == [][C20_Step]_vars

\* The entries of es for the source row number r and the column n.
EntriesOf(es, r, n) ==
    {e \in 1..Len(es) : es[e].row = r /\ ErrorField(template, es[e].message) = n}

\* C30: on the tabular path each pair of a row and a field mapping adds at
\* most one entry to rowErrors: a null or undefined value can give the
\* required-field entry but never a conversion entry as well, so a row has no
\* more entries than the template has columns.
C30_OneEntryPerField ==
    OnTabularPath =>
        \A j \in SkipRowsOf(template)..(i - 1) :
            /\ \A n \in 1..Len(template.columns) :
                  LET m == template.columns[n]
                      value == ResolveValue(fileData.metadata.type,
                                            fileData.rows[j + 1], m)
                  IN  /\ Cardinality(EntriesOf(errors, j + 1, n)) <= 1
                      /\ IsNullish(value) =>
                            \A e \in EntriesOf(errors, j + 1, n) :
                                errors[e].message = RequiredMessage(m.name)
            /\ Cardinality({e \in 1..Len(errors) : errors[e].row = j + 1})
                  <= Len(template.columns)

\* C30 witness: a required number field had no value in row 1 and the row got
\* the required-field entry alone.
C30_Witness ==
    /\ pc = "done" /\ OnTabularPath /\ Len(fileData.rows) >= 1
    /\ template.skipRows = 0
    /\ \E n \in 1..Len(template.columns) :
          /\ template.columns[n].required
          /\ template.columns[n].dataType = "number"
          /\ ResolveValue(fileData.metadata.type, fileData.rows[1],
                          template.columns[n]) = Undefined
          /\ Cardinality(EntriesOf(result.errors, 1, n)) = 1

\* The requests whose handler has ended.
EndedRequests == {c \in Callers : calls[c].pc = "ended"}

\* C21: a POST /apply-template request that ended with the status 'completed'
\* written created exactly one quotation, and one that ended with the status
\* 'failed' written created none.
C21_QuotationIffCompleted ==
    pc = "apply" =>
        \A c \in EndedRequests :
            /\ calls[c].wrote = "completed" => calls[c].created = 1
            /\ calls[c].wrote = "failed" => calls[c].created = 0

\* C22: a request that set a file to 'processing' has, when it ends, set it to
\* 'completed' or 'failed' and sent a response, and once every request has
\* ended no file is left 'processing'.
C22_NoFileLeftProcessing ==
    pc = "apply" =>
        /\ \A c \in EndedRequests :
              calls[c].wrote # "" =>
                  /\ calls[c].wrote \in {"completed", "failed"}
                  /\ calls[c].responded # 0
        /\ EndedRequests = Callers =>
              \A id \in DOMAIN uploadedFiles :
                  uploadedFiles[id].status # "processing"

\* C24: in MemStorage every stored quotation's version is 1 plus the number
\* of updateQuotation calls that went through on it since it was created,
\* and an updateQuotation on an id that is not stored fails with
\* "Quotation not found" and leaves the store as it was.
C24_VersionCountsUpdates ==
    (pc = "storage" /\ history.kind = "quotation") =>
        /\ \A id \in DOMAIN memStorage.maps["quotation"] :
              memStorage.maps["quotation"][id].version = 1 + history.updates[id]
        /\ (lastCall # None /\ lastCall.op = "update") =>
              IF lastCall.id \in DOMAIN lastCall.before.maps["quotation"]
              THEN /\ ~lastCall.thrown
                   /\ lastCall.value.version =
                        lastCall.before.maps["quotation"][lastCall.id].version + 1
              ELSE /\ lastCall.thrown
                   /\ lastCall.value = "Quotation not found"
                   /\ memStorage = lastCall.before

\* C24 witness: a quotation has been updated twice, and the last call was an
\* updateQuotation on an id that is not stored.
C24_Witness ==
    /\ pc = "storage" /\ history.kind = "quotation"
    /\ lastCall # None /\ lastCall.op = "update" /\ lastCall.thrown
    /\ \E id \in DOMAIN memStorage.maps["quotation"] :
          memStorage.maps["quotation"][id].version = 3

\* C25: in MemStorage, for each entity kind, the ids create returns grow
\* strictly (none is issued again after a delete), every stored entity is
\* kept under its own id, and an update returns the entity with the id it
\* was called with.
C25_IdsGrowAndStay ==
    pc = "storage" =>
        /\ \A m, n \in DOMAIN history.issued :
              m < n => history.issued[m] < history.issued[n]
        /\ \A kind \in Kinds :
              \A id \in DOMAIN memStorage.maps[kind] :
                  memStorage.maps[kind][id].id = id
        /\ (lastCall # None /\ lastCall.op = "update" /\ ~lastCall.thrown) =>
              /\ lastCall.value.id = lastCall.id
              /\ lastCall.before.maps[history.kind][lastCall.id].id = lastCall.id
              /\ DOMAIN memStorage.maps[history.kind]
                    = DOMAIN lastCall.before.maps[history.kind]

\* C25 witness: the entity issued last was deleted and a create came after.
C25_Witness ==
    /\ pc = "storage"
    /\ lastCall # None /\ lastCall.op = "create"
    /\ \E n \in DOMAIN history.issued :
          /\ n > SeedCount(history.kind)
          /\ history.issued[n] < lastCall.value.id
          /\ history.issued[n] \notin DOMAIN lastCall.before.maps[history.kind]

\* C23: when no updateQuotation call of SQLiteStorage is in progress, every
\* row's version is 1 plus the number of updateQuotation calls that have
\* returned it: two calls on a row of version v leave v + 2, however they
\* interleave.
C23_NoLostIncrement ==
    (pc = "sqlite" /\ \A c \in Callers : calls[c].pc = "idle") =>
        \A id \in DOMAIN sqliteStorage.rows :
            sqliteStorage.rows[id].version = 1 + history.updates[id]

\* C26: a call on quotations returns the same value or fails alike on
\* MemStorage and on SQLiteStorage, and leaves the same quotations stored
\* in both.
C26_SameOutcome ==
    (pc = "interchange" /\ lastCall # None) =>
        /\ lastCall.mem.thrown = lastCall.sqlite.thrown
        /\ lastCall.mem.value = lastCall.sqlite.value
        /\ memStorage.maps["quotation"] = sqliteStorage.rows

\* What C27 calls a request to be refused: name or mappingData is missing,
\* or mappingData is a string that is no JSON.
RefusedBody(body) ==
    \/ body.name = Undefined
    \/ body.mappingData = Undefined
    \/ body.mappingData.t = "string" /\ ~JsonParse(body.mappingData.s).ok

\* C27: every template stored through the template routes has a name that
\* is not empty and a mappingData that parses as JSON, and a POST or PUT
\* whose body lacks name or mappingData, or whose mappingData is a string
\* that is no JSON, is answered 400 and leaves the templates as they were.
C27_StoredTemplatesValid ==
    pc = "templates" =>
        /\ \A id \in DOMAIN sqliteStorage.rows :
              /\ sqliteStorage.rows[id].name # <<>>
              /\ JsonParse(sqliteStorage.rows[id].mappingData).ok
        /\ (lastCall # None /\ lastCall.op \in {"post", "put"}
                /\ RefusedBody(lastCall.body)) =>
              /\ lastCall.status = 400
              /\ sqliteStorage = lastCall.before

\* C27 witness: a template is stored, and a PUT on it whose mappingData is a
\* string that is no JSON has just been answered.
C27_Witness ==
    /\ pc = "templates"
    /\ lastCall # None /\ lastCall.op = "put" /\ lastCall.idParam = <<"1">>
    /\ 1 \in DOMAIN sqliteStorage.rows
    /\ lastCall.body.name = Str(TextT)
    /\ lastCall.body.mappingData = Str(<<"{">>)

\* C28: importing what handleExport wrote of a template creates a template
\* with the same name and a mappingData that parses to the same JSON value.
C28_RoundTrip ==
    (pc = "roundtrip" /\ history.step = "imported") =>
        /\ lastCall.status = 201
        /\ lastCall.value.name = sqliteStorage.rows[1].name
        /\ JsonParse(lastCall.value.mappingData).value
             = JsonParse(sqliteStorage.rows[1].mappingData).value

\* The value the field of a quote holds, undefined when the data is no JSON.
HeldValue(data, field) ==
    IF JsonParse(data).ok THEN FollowPath(JsonParse(data).value, Split(field, "."))
    ELSE Undefined

\* A number, or a text that reads as one.
HoldsNumber(value) ==
    \/ value.t = "number"
    \/ value.t = "string" /\ Trim(value.s) # <<>> /\ ~IsNaN(ToNumber(value))

\* The quotes whose field holds a numeric value.
NumericQuotes ==
    {n \in DOMAIN quotations : HoldsNumber(HeldValue(quotations[n].data, lastCall.field))}

\* C29: in the answer of POST /data-analysis sampleSize is the number of
\* quotes whose field holds a numeric value (a field that is missing, null
\* or not numeric adds nothing), and when there is none sum, average and
\* count are 0 and min and max are null.
C29_OnlyNumericValuesCount ==
    (pc = "analysis" /\ response # None /\ response.status = 200) =>
        /\ response.sampleSize = Cardinality(NumericQuotes)
        /\ NumericQuotes = {} =>
              IF lastCall.operation \in {"min", "max"} THEN response.result = ResultNull
              ELSE response.result = ResultNumber(0, 1)

====
